---- MODULE Spec2Model ----
\* Verification model of the Stargazer star catalog
\* (stargazer-frontend/src/services/StarCatalogService.ts).
\*
\* Numbers: JavaScript doubles are modelled in fixed point.  Angles are
\* integers in tenths of a degree, magnitudes in hundredths, and the values of
\* sin/cos are integers scaled by TRIG_SCALE.  Strings are TLA+ strings, used as
\* sequences of characters (Len, Head, Tail, SubSeq and \o apply to them).
EXTENDS Integers, Sequences, FiniteSets, TLC

\* STAR_DATA.stars (lines 68-569): one record per embedded star, in source order.
\* ra and dec are in tenths of a degree, magnitude in hundredths.
STAR_DATA_stars ==
  <<
    [id |-> "hip_677", name |-> "Alpheratz", commonName |-> "Alpha Andromedae", ra |-> 21, dec |-> 291, magnitude |-> 206],
    [id |-> "hip_113881", name |-> "Fomalhaut", commonName |-> "Alpha Piscis Austrini", ra |-> 3444, dec |-> -296, magnitude |-> 116],
    [id |-> "hip_21421", name |-> "Aldebaran", commonName |-> "Alpha Tauri", ra |-> 690, dec |-> 165, magnitude |-> 85],
    [id |-> "hip_25336", name |-> "Capella", commonName |-> "Alpha Aurigae", ra |-> 792, dec |-> 460, magnitude |-> 8],
    [id |-> "hip_27989", name |-> "Betelgeuse", commonName |-> "Alpha Orionis", ra |-> 888, dec |-> 74, magnitude |-> 50],
    [id |-> "hip_24436", name |-> "Bellatrix", commonName |-> "Gamma Orionis", ra |-> 813, dec |-> 63, magnitude |-> 164],
    [id |-> "hip_25930", name |-> "Mintaka", commonName |-> "Delta Orionis", ra |-> 830, dec |-> -3, magnitude |-> 223],
    [id |-> "hip_26311", name |-> "Alnilam", commonName |-> "Epsilon Orionis", ra |-> 841, dec |-> -12, magnitude |-> 170],
    [id |-> "hip_26727", name |-> "Alnitak", commonName |-> "Zeta Orionis", ra |-> 852, dec |-> -19, magnitude |-> 179],
    [id |-> "hip_32349", name |-> "Sirius", commonName |-> "Alpha Canis Majoris", ra |-> 1013, dec |-> -167, magnitude |-> -146],
    [id |-> "hip_37279", name |-> "Procyon", commonName |-> "Alpha Canis Minoris", ra |-> 1148, dec |-> 52, magnitude |-> 38],
    [id |-> "hip_69673", name |-> "Arcturus", commonName |-> "Alpha Bootis", ra |-> 2139, dec |-> 192, magnitude |-> -5],
    [id |-> "hip_91262", name |-> "Vega", commonName |-> "Alpha Lyrae", ra |-> 2792, dec |-> 388, magnitude |-> 3],
    [id |-> "hip_102098", name |-> "Deneb", commonName |-> "Alpha Cygni", ra |-> 3104, dec |-> 453, magnitude |-> 125],
    [id |-> "hip_97649", name |-> "Altair", commonName |-> "Alpha Aquilae", ra |-> 2977, dec |-> 89, magnitude |-> 77],
    [id |-> "hip_61084", name |-> "Spica", commonName |-> "Alpha Virginis", ra |-> 2013, dec |-> -112, magnitude |-> 104],
    [id |-> "hip_68702", name |-> "Antares", commonName |-> "Alpha Scorpii", ra |-> 2474, dec |-> -264, magnitude |-> 109],
    [id |-> "hip_54061", name |-> "Dubhe", commonName |-> "Alpha Ursae Majoris", ra |-> 1659, dec |-> 618, magnitude |-> 179],
    [id |-> "hip_53910", name |-> "Merak", commonName |-> "Beta Ursae Majoris", ra |-> 1655, dec |-> 564, magnitude |-> 237],
    [id |-> "hip_58001", name |-> "Phecda", commonName |-> "Gamma Ursae Majoris", ra |-> 1785, dec |-> 537, magnitude |-> 244],
    [id |-> "hip_59774", name |-> "Megrez", commonName |-> "Delta Ursae Majoris", ra |-> 1839, dec |-> 570, magnitude |-> 331],
    [id |-> "hip_62956", name |-> "Alioth", commonName |-> "Epsilon Ursae Majoris", ra |-> 1935, dec |-> 560, magnitude |-> 177],
    [id |-> "hip_65378", name |-> "Mizar", commonName |-> "Zeta Ursae Majoris", ra |-> 2010, dec |-> 549, magnitude |-> 227],
    [id |-> "hip_67301", name |-> "Alkaid", commonName |-> "Eta Ursae Majoris", ra |-> 2069, dec |-> 493, magnitude |-> 186],
    [id |-> "hip_11767", name |-> "Polaris", commonName |-> "Alpha Ursae Minoris", ra |-> 380, dec |-> 893, magnitude |-> 198],
    [id |-> "hip_85822", name |-> "Kochab", commonName |-> "Beta Ursae Minoris", ra |-> 2227, dec |-> 742, magnitude |-> 208],
    [id |-> "hip_82080", name |-> "Pherkad", commonName |-> "Gamma Ursae Minoris", ra |-> 2302, dec |-> 718, magnitude |-> 305],
    [id |-> "hip_77055", name |-> "Yildun", commonName |-> "Delta Ursae Minoris", ra |-> 2111, dec |-> 866, magnitude |-> 435],
    [id |-> "hip_75097", name |-> "Urodelus", commonName |-> "Epsilon Ursae Minoris", ra |-> 2139, dec |-> 820, magnitude |-> 423],
    [id |-> "hip_79822", name |-> "Ahfa al Farkadain", commonName |-> "Zeta Ursae Minoris", ra |-> 2281, dec |-> 778, magnitude |-> 432],
    [id |-> "hip_72607", name |-> "Anwar al Farkadain", commonName |-> "Eta Ursae Minoris", ra |-> 2112, dec |-> 733, magnitude |-> 495],
    [id |-> "hip_3179", name |-> "Caph", commonName |-> "Beta Cassiopeiae", ra |-> 101, dec |-> 591, magnitude |-> 227],
    [id |-> "hip_746", name |-> "Schedar", commonName |-> "Alpha Cassiopeiae", ra |-> 23, dec |-> 565, magnitude |-> 223],
    [id |-> "hip_4427", name |-> "Gamma Cassiopeiae", commonName |-> "Tsih", ra |-> 142, dec |-> 607, magnitude |-> 247],
    [id |-> "hip_6686", name |-> "Ruchbah", commonName |-> "Delta Cassiopeiae", ra |-> 215, dec |-> 602, magnitude |-> 268],
    [id |-> "hip_8886", name |-> "Segin", commonName |-> "Epsilon Cassiopeiae", ra |-> 286, dec |-> 637, magnitude |-> 338],
    [id |-> "hip_49669", name |-> "Regulus", commonName |-> "Alpha Leonis", ra |-> 1521, dec |-> 120, magnitude |-> 135],
    [id |-> "hip_57632", name |-> "Denebola", commonName |-> "Beta Leonis", ra |-> 1773, dec |-> 146, magnitude |-> 214],
    [id |-> "hip_50583", name |-> "Algieba", commonName |-> "Gamma Leonis", ra |-> 1550, dec |-> 198, magnitude |-> 208],
    [id |-> "hip_54872", name |-> "Zosma", commonName |-> "Delta Leonis", ra |-> 1685, dec |-> 205, magnitude |-> 256],
    [id |-> "hip_47908", name |-> "Algenubi", commonName |-> "Epsilon Leonis", ra |-> 1465, dec |-> 238, magnitude |-> 298],
    [id |-> "hip_46750", name |-> "Adhafera", commonName |-> "Zeta Leonis", ra |-> 1432, dec |-> 234, magnitude |-> 344],
    [id |-> "hip_55642", name |-> "Chort", commonName |-> "Theta Leonis", ra |-> 1708, dec |-> 154, magnitude |-> 334],
    [id |-> "hip_54879", name |-> "Coxa", commonName |-> "Iota Leonis", ra |-> 1686, dec |-> 105, magnitude |-> 394],
    [id |-> "hip_56211", name |-> "Chertan", commonName |-> "Mu Leonis", ra |-> 1725, dec |-> 260, magnitude |-> 388],
    [id |-> "hip_100453", name |-> "Sadr", commonName |-> "Gamma Cygni", ra |-> 3056, dec |-> 403, magnitude |-> 220],
    [id |-> "hip_95947", name |-> "Gienah", commonName |-> "Epsilon Cygni", ra |-> 2927, dec |-> 340, magnitude |-> 246],
    [id |-> "hip_104732", name |-> "Albireo", commonName |-> "Beta Cygni", ra |-> 2927, dec |-> 280, magnitude |-> 308],
    [id |-> "hip_94779", name |-> "Fawaris", commonName |-> "Delta Cygni", ra |-> 2892, dec |-> 451, magnitude |-> 287]
  >>

\* STAR_DATA.constellations (lines 570-702), in source order.
STAR_DATA_constellations ==
  <<
    [id |-> "orion", name |-> "Orion", abbreviation |-> "Ori",
     stars |-> <<"hip_27989", "hip_24436", "hip_25930", "hip_26311", "hip_26727">>,
     lines |-> <<[from |-> "hip_25930", to |-> "hip_26311"],
                [from |-> "hip_26311", to |-> "hip_26727"],
                [from |-> "hip_24436", to |-> "hip_27989"],
                [from |-> "hip_24436", to |-> "hip_25930"],
                [from |-> "hip_27989", to |-> "hip_26311"]>>],
    [id |-> "canis_major", name |-> "Canis Major", abbreviation |-> "CMa",
     stars |-> <<"hip_32349">>,
     lines |-> <<>>],
    [id |-> "summer_triangle", name |-> "Summer Triangle", abbreviation |-> "ST",
     stars |-> <<"hip_91262", "hip_102098", "hip_97649">>,
     lines |-> <<[from |-> "hip_91262", to |-> "hip_102098"],
                [from |-> "hip_102098", to |-> "hip_97649"],
                [from |-> "hip_97649", to |-> "hip_91262"]>>],
    [id |-> "taurus", name |-> "Taurus", abbreviation |-> "Tau",
     stars |-> <<"hip_21421">>,
     lines |-> <<>>],
    [id |-> "ursa_major", name |-> "Ursa Major", abbreviation |-> "UMa",
     stars |-> <<"hip_54061", "hip_53910", "hip_58001", "hip_59774", "hip_62956", "hip_65378", "hip_67301">>,
     lines |-> <<[from |-> "hip_54061", to |-> "hip_53910"],
                [from |-> "hip_53910", to |-> "hip_58001"],
                [from |-> "hip_58001", to |-> "hip_59774"],
                [from |-> "hip_59774", to |-> "hip_54061"],
                [from |-> "hip_59774", to |-> "hip_62956"],
                [from |-> "hip_62956", to |-> "hip_65378"],
                [from |-> "hip_65378", to |-> "hip_67301"]>>],
    [id |-> "ursa_minor", name |-> "Ursa Minor", abbreviation |-> "UMi",
     stars |-> <<"hip_11767", "hip_85822", "hip_82080", "hip_77055", "hip_75097", "hip_79822", "hip_72607">>,
     lines |-> <<[from |-> "hip_85822", to |-> "hip_82080"],
                [from |-> "hip_82080", to |-> "hip_79822"],
                [from |-> "hip_79822", to |-> "hip_72607"],
                [from |-> "hip_72607", to |-> "hip_85822"],
                [from |-> "hip_72607", to |-> "hip_75097"],
                [from |-> "hip_75097", to |-> "hip_77055"],
                [from |-> "hip_77055", to |-> "hip_11767"]>>],
    [id |-> "cassiopeia", name |-> "Cassiopeia", abbreviation |-> "Cas",
     stars |-> <<"hip_746", "hip_3179", "hip_4427", "hip_6686", "hip_8886">>,
     lines |-> <<[from |-> "hip_746", to |-> "hip_3179"],
                [from |-> "hip_3179", to |-> "hip_4427"],
                [from |-> "hip_4427", to |-> "hip_6686"],
                [from |-> "hip_6686", to |-> "hip_8886"]>>],
    [id |-> "leo", name |-> "Leo", abbreviation |-> "Leo",
     stars |-> <<"hip_49669", "hip_57632", "hip_50583", "hip_54872", "hip_47908", "hip_46750", "hip_55642", "hip_54879", "hip_56211">>,
     lines |-> <<[from |-> "hip_49669", to |-> "hip_47908"],
                [from |-> "hip_47908", to |-> "hip_56211"],
                [from |-> "hip_56211", to |-> "hip_46750"],
                [from |-> "hip_46750", to |-> "hip_50583"],
                [from |-> "hip_50583", to |-> "hip_47908"],
                [from |-> "hip_49669", to |-> "hip_54872"],
                [from |-> "hip_54872", to |-> "hip_55642"],
                [from |-> "hip_55642", to |-> "hip_57632"],
                [from |-> "hip_54872", to |-> "hip_54879"]>>],
    [id |-> "cygnus", name |-> "Cygnus", abbreviation |-> "Cyg",
     stars |-> <<"hip_102098", "hip_100453", "hip_95947", "hip_104732", "hip_94779">>,
     lines |-> <<[from |-> "hip_102098", to |-> "hip_100453"],
                [from |-> "hip_100453", to |-> "hip_104732"],
                [from |-> "hip_95947", to |-> "hip_94779"],
                [from |-> "hip_95947", to |-> "hip_100453"],
                [from |-> "hip_100453", to |-> "hip_94779"]>>]
  >>

\* PLANET_DATA.planets (lines 705-934), in source order.  Angles are in tenths of
\* a degree, semiMajorAxis in thousandths of an AU, eccentricity in
\* ten-thousandths, dailyMotion in thousandths of a degree per day; epoch is
\* the Julian day 2451545.0 for every body.
PLANET_DATA_planets ==
  <<
    [id |-> "sun", name |-> "Sun", commonName |-> "Sol", type |-> "sun",
     orbitalElements |-> [semiMajorAxis |-> 0, eccentricity |-> 0, inclination |-> 0,
                          longitudeOfAscendingNode |-> 0, argumentOfPeriapsis |-> 0,
                          meanAnomalyAtEpoch |-> 0, epoch |-> 2451545, dailyMotion |-> 0]],
    [id |-> "mercury", name |-> "Mercury", commonName |-> "Mercury", type |-> "planet",
     orbitalElements |-> [semiMajorAxis |-> 387, eccentricity |-> 2056, inclination |-> 70,
                          longitudeOfAscendingNode |-> 483, argumentOfPeriapsis |-> 775,
                          meanAnomalyAtEpoch |-> 2523, epoch |-> 2451545, dailyMotion |-> 4092]],
    [id |-> "venus", name |-> "Venus", commonName |-> "Venus", type |-> "planet",
     orbitalElements |-> [semiMajorAxis |-> 723, eccentricity |-> 68, inclination |-> 34,
                          longitudeOfAscendingNode |-> 767, argumentOfPeriapsis |-> 1316,
                          meanAnomalyAtEpoch |-> 1820, epoch |-> 2451545, dailyMotion |-> 1602]],
    [id |-> "earth", name |-> "Earth", commonName |-> "Earth", type |-> "planet",
     orbitalElements |-> [semiMajorAxis |-> 1000, eccentricity |-> 167, inclination |-> 0,
                          longitudeOfAscendingNode |-> 0, argumentOfPeriapsis |-> 1029,
                          meanAnomalyAtEpoch |-> 1005, epoch |-> 2451545, dailyMotion |-> 986]],
    [id |-> "mars", name |-> "Mars", commonName |-> "Mars", type |-> "planet",
     orbitalElements |-> [semiMajorAxis |-> 1524, eccentricity |-> 934, inclination |-> 18,
                          longitudeOfAscendingNode |-> 496, argumentOfPeriapsis |-> -46,
                          meanAnomalyAtEpoch |-> -46, epoch |-> 2451545, dailyMotion |-> 524]],
    [id |-> "jupiter", name |-> "Jupiter", commonName |-> "Jupiter", type |-> "planet",
     orbitalElements |-> [semiMajorAxis |-> 5203, eccentricity |-> 484, inclination |-> 13,
                          longitudeOfAscendingNode |-> 1005, argumentOfPeriapsis |-> 2739,
                          meanAnomalyAtEpoch |-> 199, epoch |-> 2451545, dailyMotion |-> 83]],
    [id |-> "saturn", name |-> "Saturn", commonName |-> "Saturn", type |-> "planet",
     orbitalElements |-> [semiMajorAxis |-> 9537, eccentricity |-> 539, inclination |-> 25,
                          longitudeOfAscendingNode |-> 1137, argumentOfPeriapsis |-> 3394,
                          meanAnomalyAtEpoch |-> 3170, epoch |-> 2451545, dailyMotion |-> 33]],
    [id |-> "uranus", name |-> "Uranus", commonName |-> "Uranus", type |-> "planet",
     orbitalElements |-> [semiMajorAxis |-> 19189, eccentricity |-> 473, inclination |-> 8,
                          longitudeOfAscendingNode |-> 740, argumentOfPeriapsis |-> 970,
                          meanAnomalyAtEpoch |-> 1422, epoch |-> 2451545, dailyMotion |-> 12]],
    [id |-> "neptune", name |-> "Neptune", commonName |-> "Neptune", type |-> "planet",
     orbitalElements |-> [semiMajorAxis |-> 30070, eccentricity |-> 86, inclination |-> 18,
                          longitudeOfAscendingNode |-> 1318, argumentOfPeriapsis |-> 2728,
                          meanAnomalyAtEpoch |-> 2602, epoch |-> 2451545, dailyMotion |-> 6]]
  >>

\* Math.sin on 0.0, 0.1, ..., 90.0 degrees, scaled by TRIG_SCALE and rounded:
\* SinTable[a + 1] = round(10000 * sin(a / 10 degrees)).
SinTable ==
  <<
    0, 17, 35, 52, 70, 87, 105, 122, 140, 157, 175, 192, 209, 227, 244,
    262, 279, 297, 314, 332, 349, 366, 384, 401, 419, 436, 454, 471, 488, 506,
    523, 541, 558, 576, 593, 610, 628, 645, 663, 680, 698, 715, 732, 750, 767,
    785, 802, 819, 837, 854, 872, 889, 906, 924, 941, 958, 976, 993, 1011, 1028,
    1045, 1063, 1080, 1097, 1115, 1132, 1149, 1167, 1184, 1201, 1219, 1236, 1253, 1271, 1288,
    1305, 1323, 1340, 1357, 1374, 1392, 1409, 1426, 1444, 1461, 1478, 1495, 1513, 1530, 1547,
    1564, 1582, 1599, 1616, 1633, 1650, 1668, 1685, 1702, 1719, 1736, 1754, 1771, 1788, 1805,
    1822, 1840, 1857, 1874, 1891, 1908, 1925, 1942, 1959, 1977, 1994, 2011, 2028, 2045, 2062,
    2079, 2096, 2113, 2130, 2147, 2164, 2181, 2198, 2215, 2233, 2250, 2267, 2284, 2300, 2317,
    2334, 2351, 2368, 2385, 2402, 2419, 2436, 2453, 2470, 2487, 2504, 2521, 2538, 2554, 2571,
    2588, 2605, 2622, 2639, 2656, 2672, 2689, 2706, 2723, 2740, 2756, 2773, 2790, 2807, 2823,
    2840, 2857, 2874, 2890, 2907, 2924, 2940, 2957, 2974, 2990, 3007, 3024, 3040, 3057, 3074,
    3090, 3107, 3123, 3140, 3156, 3173, 3190, 3206, 3223, 3239, 3256, 3272, 3289, 3305, 3322,
    3338, 3355, 3371, 3387, 3404, 3420, 3437, 3453, 3469, 3486, 3502, 3518, 3535, 3551, 3567,
    3584, 3600, 3616, 3633, 3649, 3665, 3681, 3697, 3714, 3730, 3746, 3762, 3778, 3795, 3811,
    3827, 3843, 3859, 3875, 3891, 3907, 3923, 3939, 3955, 3971, 3987, 4003, 4019, 4035, 4051,
    4067, 4083, 4099, 4115, 4131, 4147, 4163, 4179, 4195, 4210, 4226, 4242, 4258, 4274, 4289,
    4305, 4321, 4337, 4352, 4368, 4384, 4399, 4415, 4431, 4446, 4462, 4478, 4493, 4509, 4524,
    4540, 4555, 4571, 4586, 4602, 4617, 4633, 4648, 4664, 4679, 4695, 4710, 4726, 4741, 4756,
    4772, 4787, 4802, 4818, 4833, 4848, 4863, 4879, 4894, 4909, 4924, 4939, 4955, 4970, 4985,
    5000, 5015, 5030, 5045, 5060, 5075, 5090, 5105, 5120, 5135, 5150, 5165, 5180, 5195, 5210,
    5225, 5240, 5255, 5270, 5284, 5299, 5314, 5329, 5344, 5358, 5373, 5388, 5402, 5417, 5432,
    5446, 5461, 5476, 5490, 5505, 5519, 5534, 5548, 5563, 5577, 5592, 5606, 5621, 5635, 5650,
    5664, 5678, 5693, 5707, 5721, 5736, 5750, 5764, 5779, 5793, 5807, 5821, 5835, 5850, 5864,
    5878, 5892, 5906, 5920, 5934, 5948, 5962, 5976, 5990, 6004, 6018, 6032, 6046, 6060, 6074,
    6088, 6101, 6115, 6129, 6143, 6157, 6170, 6184, 6198, 6211, 6225, 6239, 6252, 6266, 6280,
    6293, 6307, 6320, 6334, 6347, 6361, 6374, 6388, 6401, 6414, 6428, 6441, 6455, 6468, 6481,
    6494, 6508, 6521, 6534, 6547, 6561, 6574, 6587, 6600, 6613, 6626, 6639, 6652, 6665, 6678,
    6691, 6704, 6717, 6730, 6743, 6756, 6769, 6782, 6794, 6807, 6820, 6833, 6845, 6858, 6871,
    6884, 6896, 6909, 6921, 6934, 6947, 6959, 6972, 6984, 6997, 7009, 7022, 7034, 7046, 7059,
    7071, 7083, 7096, 7108, 7120, 7133, 7145, 7157, 7169, 7181, 7193, 7206, 7218, 7230, 7242,
    7254, 7266, 7278, 7290, 7302, 7314, 7325, 7337, 7349, 7361, 7373, 7385, 7396, 7408, 7420,
    7431, 7443, 7455, 7466, 7478, 7490, 7501, 7513, 7524, 7536, 7547, 7559, 7570, 7581, 7593,
    7604, 7615, 7627, 7638, 7649, 7660, 7672, 7683, 7694, 7705, 7716, 7727, 7738, 7749, 7760,
    7771, 7782, 7793, 7804, 7815, 7826, 7837, 7848, 7859, 7869, 7880, 7891, 7902, 7912, 7923,
    7934, 7944, 7955, 7965, 7976, 7986, 7997, 8007, 8018, 8028, 8039, 8049, 8059, 8070, 8080,
    8090, 8100, 8111, 8121, 8131, 8141, 8151, 8161, 8171, 8181, 8192, 8202, 8211, 8221, 8231,
    8241, 8251, 8261, 8271, 8281, 8290, 8300, 8310, 8320, 8329, 8339, 8348, 8358, 8368, 8377,
    8387, 8396, 8406, 8415, 8425, 8434, 8443, 8453, 8462, 8471, 8480, 8490, 8499, 8508, 8517,
    8526, 8536, 8545, 8554, 8563, 8572, 8581, 8590, 8599, 8607, 8616, 8625, 8634, 8643, 8652,
    8660, 8669, 8678, 8686, 8695, 8704, 8712, 8721, 8729, 8738, 8746, 8755, 8763, 8771, 8780,
    8788, 8796, 8805, 8813, 8821, 8829, 8838, 8846, 8854, 8862, 8870, 8878, 8886, 8894, 8902,
    8910, 8918, 8926, 8934, 8942, 8949, 8957, 8965, 8973, 8980, 8988, 8996, 9003, 9011, 9018,
    9026, 9033, 9041, 9048, 9056, 9063, 9070, 9078, 9085, 9092, 9100, 9107, 9114, 9121, 9128,
    9135, 9143, 9150, 9157, 9164, 9171, 9178, 9184, 9191, 9198, 9205, 9212, 9219, 9225, 9232,
    9239, 9245, 9252, 9259, 9265, 9272, 9278, 9285, 9291, 9298, 9304, 9311, 9317, 9323, 9330,
    9336, 9342, 9348, 9354, 9361, 9367, 9373, 9379, 9385, 9391, 9397, 9403, 9409, 9415, 9421,
    9426, 9432, 9438, 9444, 9449, 9455, 9461, 9466, 9472, 9478, 9483, 9489, 9494, 9500, 9505,
    9511, 9516, 9521, 9527, 9532, 9537, 9542, 9548, 9553, 9558, 9563, 9568, 9573, 9578, 9583,
    9588, 9593, 9598, 9603, 9608, 9613, 9617, 9622, 9627, 9632, 9636, 9641, 9646, 9650, 9655,
    9659, 9664, 9668, 9673, 9677, 9681, 9686, 9690, 9694, 9699, 9703, 9707, 9711, 9715, 9720,
    9724, 9728, 9732, 9736, 9740, 9744, 9748, 9751, 9755, 9759, 9763, 9767, 9770, 9774, 9778,
    9781, 9785, 9789, 9792, 9796, 9799, 9803, 9806, 9810, 9813, 9816, 9820, 9823, 9826, 9829,
    9833, 9836, 9839, 9842, 9845, 9848, 9851, 9854, 9857, 9860, 9863, 9866, 9869, 9871, 9874,
    9877, 9880, 9882, 9885, 9888, 9890, 9893, 9895, 9898, 9900, 9903, 9905, 9907, 9910, 9912,
    9914, 9917, 9919, 9921, 9923, 9925, 9928, 9930, 9932, 9934, 9936, 9938, 9940, 9942, 9943,
    9945, 9947, 9949, 9951, 9952, 9954, 9956, 9957, 9959, 9960, 9962, 9963, 9965, 9966, 9968,
    9969, 9971, 9972, 9973, 9974, 9976, 9977, 9978, 9979, 9980, 9981, 9982, 9983, 9984, 9985,
    9986, 9987, 9988, 9989, 9990, 9990, 9991, 9992, 9993, 9993, 9994, 9995, 9995, 9996, 9996,
    9997, 9997, 9997, 9998, 9998, 9998, 9999, 9999, 9999, 9999, 10000, 10000, 10000, 10000, 10000,
    10000
  >>

\* The embedded table the instance is constructed with (readonly field STAR_DATA).
STAR_DATA == [stars |-> STAR_DATA_stars, constellations |-> STAR_DATA_constellations]

----------------------------------------------------------------------------
\* Strings

UpperCase == "ABCDEFGHIJKLMNOPQRSTUVWXYZ"

LowerCase == "abcdefghijklmnopqrstuvwxyz"

\* Position of the one-character string c in the string s, 0 when absent.
IndexIn(c, s) ==
  IF \E i \in 1..Len(s) : SubSeq(s, i, i) = c
    THEN CHOOSE i \in 1..Len(s) : SubSeq(s, i, i) = c
    ELSE 0

\* The lower case letter of every upper case letter.
UpperToLower ==
  [c \in {SubSeq(UpperCase, i, i) : i \in 1..Len(UpperCase)} |->
     SubSeq(LowerCase, IndexIn(c, UpperCase), IndexIn(c, UpperCase))]

\* String.prototype.toLowerCase on one character.
LowerChar(c) == IF c \in DOMAIN UpperToLower THEN UpperToLower[c] ELSE c

RECURSIVE toLowerCase(_)
\* String.prototype.toLowerCase.
toLowerCase(s) ==
  IF s = "" THEN "" ELSE LowerChar(Head(s)) \o toLowerCase(Tail(s))

IsWhiteSpace(c) == c = " "

RECURSIVE trimStart(_)
trimStart(s) ==
  IF s # "" /\ IsWhiteSpace(Head(s)) THEN trimStart(Tail(s)) ELSE s

RECURSIVE trimEnd(_)
trimEnd(s) ==
  IF s # "" /\ IsWhiteSpace(SubSeq(s, Len(s), Len(s)))
    THEN trimEnd(SubSeq(s, 1, Len(s) - 1))
    ELSE s

\* String.prototype.trim.
trim(s) == trimEnd(trimStart(s))

\* String.prototype.includes: q occurs in s as a contiguous substring.
includes(s, q) ==
  \E i \in 1..(Len(s) - Len(q) + 1) : SubSeq(s, i, i + Len(q) - 1) = q



----------------------------------------------------------------------------
\* Map<string, T>: a sequence of values keyed by their id field, in insertion
\* order (the iteration order of a JavaScript Map).

MapHas(m, id) == \E i \in 1..Len(m) : m[i].id = id

MapIndex(m, id) == CHOOSE i \in 1..Len(m) : m[i].id = id

\* Mutant of MapSetAll: every entry of data is appended, as Array.prototype.push
\* does, whether the map holds its key or not.
MapSetAll_Appends(m, data) == m \o data

\* for (const v of data) m.set(v.id, v).  Map.prototype.set replaces the value of
\* a key the map holds, leaving its position, and appends a key it does not
\* hold: after the loop every old key holds the last entry of data with that key
\* (or its old value), and the new keys follow in the order of their first
\* occurrence in data.
MapSetAll(m, data) ==
  LET InData(id) == \E j \in 1..Len(data) : data[j].id = id
      Last(id) == data[CHOOSE j \in 1..Len(data) :
                         /\ data[j].id = id
                         /\ \A k \in (j + 1)..Len(data) : data[k].id # id]
      kept == [i \in 1..Len(m) |-> IF InData(m[i].id) THEN Last(m[i].id) ELSE m[i]]
      IsNew(j) == /\ ~MapHas(m, data[j].id)
                  /\ \A k \in 1..(j - 1) : data[k].id # data[j].id
      newIndexes == SelectSeq([j \in 1..Len(data) |-> j], IsNew)
  IN  kept \o [p \in 1..Len(newIndexes) |-> Last(data[newIndexes[p]].id)]

\* Array.from(m.values())
MapValues(m) == m

----------------------------------------------------------------------------
\* Array.prototype.sort((a, b) => a.magnitude - b.magnitude).  The sort is
\* stable (ECMAScript 2019): elements that compare equal keep their order.

\* Mutant of sortByMagnitude: the sort is left out.
sortByMagnitude_Unsorted(arr) == arr

\* The element arr[i] ends at position
\* 1 + (number of elements the comparator puts before it)
\*   + (number of elements that compare equal to it and precede it).
sortByMagnitude(arr) ==
  LET n == Len(arr)
      pos == [i \in 1..n |->
                1 + Cardinality({j \in 1..n :
                      \/ arr[j].magnitude - arr[i].magnitude < 0
                      \/ arr[j].magnitude - arr[i].magnitude = 0 /\ j < i})]
  IN  [p \in 1..n |-> arr[CHOOSE i \in 1..n : pos[i] = p]]

----------------------------------------------------------------------------
\* Tables a catalog instance may be constructed with: the bundled one, and
\* tables with a constellation that names a star the table does not hold.

DanglingMemberData ==
  [STAR_DATA EXCEPT !.constellations =
     Append(@, [id |-> "crux", name |-> "Crux", abbreviation |-> "Cru",
                stars |-> <<"hip_60718">>, lines |-> <<>>])]

DanglingLineData ==
  [STAR_DATA EXCEPT !.constellations =
     Append(@, [id |-> "lyra", name |-> "Lyra", abbreviation |-> "Lyr",
                stars |-> <<"hip_91262">>,
                lines |-> <<[from |-> "hip_91262", to |-> "hip_91971"]>>])]

SeedTables == {STAR_DATA, DanglingMemberData, DanglingLineData}

----------------------------------------------------------------------------
\* State

VARIABLES
  starData,        \* the STAR_DATA field of the instance
  instance,        \* StarCatalogService.instance has been created
  stars,           \* this.stars
  constellations,  \* this.constellations
  planets,         \* this.planets
  isInitialized,   \* this.isInitialized
  initCalls,       \* number of initialize() calls made
  initOutcome,     \* how the last initialize() call ended
  call,            \* the last query: who called, which method, the arguments
  outcome          \* what that query returned or threw

catalogVars == <<stars, constellations, planets, isInitialized>>

vars == <<starData, instance, stars, constellations, planets, isInitialized,
          initCalls, initOutcome, call, outcome>>

\* The ARStargazer component: its React state, its refs, and what the browser
\* holds for it.
VARIABLES
  ar_isLoading,            \* isLoading
  ar_isInitialized,        \* isInitialized (the component's, not the catalog's)
  ar_error,                \* error
  mountRef,                \* mountRef.current is attached to a rendered element
  sceneRef,                \* sceneRef.current: the children of the scene, or null
  cameraRef,               \* cameraRef.current is non-null
  rendererRef,             \* rendererRef.current is non-null
  starObjectsRef,          \* the meshes held by starObjectsRef.current
  labelObjectsRef,         \* the sprites held by labelObjectsRef.current
  planetObjectsRef,        \* the meshes held by planetObjectsRef.current
  planetLabelObjectsRef,   \* the sprites held by planetLabelObjectsRef.current
  constellationLabelsRef,  \* the sprites held by constellationLabelsRef.current
  constellationLinesRef,   \* the children of constellationLinesRef.current
  isDragging,              \* isDragging
  hasDragged,              \* hasDragged
  lastMousePos,            \* lastMousePos.x
  listening,               \* the mouse listeners are registered on the mount element
  pendingRuns,             \* initializeARStargazer invocations waiting in `await`
  runs,                    \* initializeARStargazer invocations started
  updates,                 \* updateStarField calls made
  gesture                  \* the mouse gesture in progress and what it has called

viewerVars ==
  <<ar_isLoading, ar_isInitialized, ar_error, mountRef, sceneRef, cameraRef,
    rendererRef, starObjectsRef, labelObjectsRef, planetObjectsRef,
    planetLabelObjectsRef, constellationLabelsRef, constellationLinesRef,
    isDragging, hasDragged, lastMousePos, listening, pendingRuns, runs, updates,
    gesture>>

\* The App component (AppContent), the auth context it reads, and what the
\* browser keeps for it across a reload.
VARIABLES
  currentPage,        \* currentPage
  selectedStar,       \* selectedStar
  selectedPlanet,     \* selectedPlanet
  stargazerKey,       \* stargazerKey
  auth_loading,       \* useAuth().loading
  auth_user,          \* useAuth().user
  storedCurrentPage,  \* localStorage['stargazer-current-page']
  locationHash,       \* window.location.hash without the '#'
  app_mounted,        \* the effects of the first render have run
  app_signingOut,     \* handleLogout invocations waiting in `await signOut()`
  app_handled,        \* the handler or effect that ran last
  pageBeforeReload    \* the page that was current when the page was reloaded

appVars ==
  <<currentPage, selectedStar, selectedPlanet, stargazerKey, auth_loading,
    auth_user, storedCurrentPage, locationHash, app_mounted, app_signingOut,
    app_handled, pageBeforeReload>>

\* The WebSensorManager singleton and the browser around it.
VARIABLES
  orientationListeners,        \* this.orientationListeners
  currentLocation,             \* this.currentLocation
  orientationSupported,        \* this.orientationSupported
  locationSupported,           \* this.locationSupported
  permissionsGranted,          \* this.permissionsGranted
  deviceOrientationInWindow,   \* 'DeviceOrientationEvent' in window
  geolocationInNavigator,      \* 'geolocation' in navigator
  windowListeners,             \* handleOrientation closures registered on window
  sensor_locating,             \* initialize() calls waiting in fetchCurrentLocation
  sensor_calls,                \* initialize() calls made
  sensor_resolved,             \* initialize() calls that resolved
  sensor_handled,              \* the method or event that ran last
  invoked                      \* how often the last event called each listener

sensorVars ==
  <<orientationListeners, currentLocation, orientationSupported, locationSupported,
    permissionsGranted, deviceOrientationInWindow, geolocationInNavigator,
    windowListeners, sensor_locating, sensor_calls, sensor_resolved,
    sensor_handled, invoked>>

\* The NASADataPage component and the localStorage entries it keeps.
VARIABLES
  nasaLastFetch,     \* localStorage['nasaLastFetch']
  nasaCachedNEO,     \* localStorage['nasaCachedNEO']
  nasaCachedAPOD,    \* localStorage['nasaCachedAPOD']
  nearEarthObjects,  \* nearEarthObjects
  apodData,          \* apodData
  nasa_loading,      \* loading
  nasa_error,        \* error
  nasa_now,          \* Date.now(), in seconds
  nasa_calls,        \* fetchNASAData invocations made
  nasa_requests,     \* requests the last invocation sent to api.nasa.gov
  nasa_recent        \* the last invocation began within a minute of nasaLastFetch

nasaVars ==
  <<nasaLastFetch, nasaCachedNEO, nasaCachedAPOD, nearEarthObjects, apodData,
    nasa_loading, nasa_error, nasa_now, nasa_calls, nasa_requests, nasa_recent>>

\* The state of the components around the catalog.
pageVars == <<viewerVars, appVars, sensorVars, nasaVars>>

\* The pages other than the ARStargazer component.
otherPages == <<appVars, sensorVars, nasaVars>>

allVars == <<vars, pageVars>>

\* Callers of the catalog (the render loop, a click handler).
Readers == {"frame", "picker"}

\* initialize() calls a behaviour may make.
MaxInitCalls == 2

\* The instance fields a method reads through `this`.
This ==
  [stars |-> stars, constellations |-> constellations, planets |-> planets,
   isInitialized |-> isInitialized]

NoCall == [op |-> "none"]

NoOutcome == [kind |-> "none"]

Throw(msg) == [kind |-> "error", message |-> msg]

Return(v) == [kind |-> "value", value |-> v]

Undefined == [kind |-> "undefined"]

Null == [null |-> TRUE]

NotInitialized == Throw("Star catalog not initialized")

----------------------------------------------------------------------------
\* Construction

\* ARStargazer as React mounts it: the useState initial values and the useRef
\* initial values; the first render shows the loading screen, so mountRef is
\* not attached.
InitARStargazer ==
  /\ ar_isLoading = TRUE
  /\ ar_isInitialized = FALSE
  /\ ar_error = Null
  /\ mountRef = FALSE
  /\ sceneRef = Null
  /\ cameraRef = FALSE
  /\ rendererRef = FALSE
  /\ starObjectsRef = {}
  /\ labelObjectsRef = {}
  /\ planetObjectsRef = {}
  /\ planetLabelObjectsRef = {}
  /\ constellationLabelsRef = {}
  /\ constellationLinesRef = {}
  /\ isDragging = FALSE
  /\ hasDragged = FALSE
  /\ lastMousePos = 0
  /\ listening = FALSE
  /\ pendingRuns = 0
  /\ runs = 0
  /\ updates = 0
  /\ gesture = [phase |-> "none"]

Pages == {"home", "stargazer", "about", "nasa"}

\* What localStorage.getItem returns for a stored string.
Stored(value) == [value |-> value]

\* The App component as React mounts it after a reload: the useState initial
\* values, the auth check under way, and the hash and the localStorage entry
\* the earlier session left (or none).
InitApp ==
  /\ currentPage = "home"
  /\ selectedStar = Null
  /\ selectedPlanet = Null
  /\ stargazerKey = 0
  /\ auth_loading = TRUE
  /\ auth_user = Null
  /\ storedCurrentPage \in {Null} \cup {Stored(p) : p \in Pages}
  /\ locationHash \in {""} \cup Pages
  /\ app_mounted = FALSE
  /\ app_signingOut = 0
  /\ app_handled = "none"
  /\ pageBeforeReload =
       IF locationHash \in Pages THEN Stored(locationHash) ELSE storedCurrentPage

\* Callbacks a component may register as orientation listeners.
Listeners == {"handleOrientationChange", "logOrientation"}

\* WebSensorManager after getInstance(): the field initialisers; the browser
\* has or lacks the two APIs for the whole session.
InitSensors ==
  /\ orientationListeners = <<>>
  /\ currentLocation = Null
  /\ orientationSupported = FALSE
  /\ locationSupported = FALSE
  /\ permissionsGranted = FALSE
  /\ deviceOrientationInWindow \in BOOLEAN
  /\ geolocationInNavigator \in BOOLEAN
  /\ windowListeners = 0
  /\ sensor_locating = 0
  /\ sensor_calls = 0
  /\ sensor_resolved = 0
  /\ sensor_handled = "none"
  /\ invoked = [l \in Listeners |-> 0]

\* NASADataPage on a first visit: the useState initial values and an empty
\* localStorage.
InitNASA ==
  /\ nasaLastFetch = Null
  /\ nasaCachedNEO = Null
  /\ nasaCachedAPOD = Null
  /\ nearEarthObjects = <<>>
  /\ apodData = Null
  /\ nasa_loading = TRUE
  /\ nasa_error = Null
  /\ nasa_now = 0
  /\ nasa_calls = 0
  /\ nasa_requests = 0
  /\ nasa_recent = FALSE

\* App reloaded with no hash and nothing stored.
IdleApp == InitApp /\ storedCurrentPage = Null /\ locationHash = ""

\* WebSensorManager in a browser that has both APIs.
IdleSensors == InitSensors /\ deviceOrientationInWindow /\ geolocationInNavigator

\* The pages idle, as the catalog's own specifications leave them.
InitPages == InitARStargazer /\ IdleApp /\ IdleSensors /\ InitNASA
  /\ storedCurrentPage = Null
  /\ locationHash = ""

\* The catalog before getInstance().
InitCatalog ==
  /\ instance = FALSE
  /\ stars = <<>>
  /\ constellations = <<>>
  /\ planets = <<>>
  /\ isInitialized = FALSE
  /\ initCalls = 0
  /\ initOutcome = "none"
  /\ call = NoCall
  /\ outcome = NoOutcome

InitRest == InitPages /\ InitCatalog

Init == starData = STAR_DATA /\ InitRest

InitSeed == starData \in SeedTables /\ InitRest

\* StarCatalogService.getInstance(): creates the singleton on first use.
getInstance ==
  /\ call.op = "none"
  /\ instance' = TRUE
  /\ UNCHANGED <<pageVars, starData, stars, constellations, planets, isInitialized,
                 initCalls, initOutcome, call, outcome>>

\* Mutant of loadEmbeddedCatalog: the loop over the stars is left out.
loadEmbeddedCatalog_ConstellationsOnly(this, data) ==
  [this EXCEPT !.constellations = MapSetAll(this.constellations, data.constellations)]

\* Mutant of loadEmbeddedCatalog: the loop over the stars stops before the
\* last star.
loadEmbeddedCatalog_SkipsLastStar(this, data) ==
  [this EXCEPT !.stars = MapSetAll(this.stars,
                                   SubSeq(data.stars, 1, Len(data.stars) - 1)),
               !.constellations = MapSetAll(this.constellations, data.constellations)]

\* loadEmbeddedCatalog(): the stars, then the constellations.
loadEmbeddedCatalog(this, data) ==
  [this EXCEPT !.stars = MapSetAll(this.stars, data.stars),
               !.constellations = MapSetAll(this.constellations, data.constellations)]

\* loadPlanetaryData()
loadPlanetaryData(this) ==
  [this EXCEPT !.planets = MapSetAll(this.planets, PLANET_DATA_planets)]

\* initialize(): neither loader throws, so the catch branch is never taken.
initialize ==
  /\ instance
  /\ call.op = "none"
  /\ initCalls < MaxInitCalls
  /\ LET loaded == loadPlanetaryData(loadEmbeddedCatalog(This, starData))
     IN  /\ stars' = loaded.stars
         /\ constellations' = loaded.constellations
         /\ planets' = loaded.planets
  /\ isInitialized' = TRUE
  /\ initOutcome' = "resolved"
  /\ initCalls' = initCalls + 1
  /\ UNCHANGED <<pageVars, starData, instance, call, outcome>>

----------------------------------------------------------------------------
\* Queries

\* getStar(id)
getStar(this, id) ==
  IF MapHas(this.stars, id) THEN Return(this.stars[MapIndex(this.stars, id)])
  ELSE Undefined

\* getPlanet(id)
getPlanet(this, id) ==
  IF MapHas(this.planets, id) THEN Return(this.planets[MapIndex(this.planets, id)])
  ELSE Undefined

\* getConstellation(id)
getConstellation(this, id) ==
  IF MapHas(this.constellations, id)
    THEN Return(this.constellations[MapIndex(this.constellations, id)])
    ELSE Undefined

\* getPlanets()
getPlanets(this) == Return(MapValues(this.planets))

\* getConstellations()
getConstellations(this) == Return(MapValues(this.constellations))

RECURSIVE reduceBrightest(_, _)
\* stars.reduce((brightest, star) => star.magnitude < brightest.magnitude ? star : brightest,
\*              stars[0]) over the first k elements of arr.
reduceBrightest(arr, k) ==
  IF k = 0 THEN arr[1]
  ELSE LET brightest == reduceBrightest(arr, k - 1)
           star == arr[k]
       IN  IF star.magnitude < brightest.magnitude THEN star ELSE brightest

\* getStatistics()
getStatistics(this) ==
  LET all == MapValues(this.stars)
  IN  Return([totalStars |-> Len(this.stars),
              totalConstellations |-> Len(this.constellations),
              totalPlanets |-> Len(this.planets),
              brightestStar |-> IF all = <<>> THEN Null
                                ELSE reduceBrightest(all, Len(all))])

\* Mutant of searchStars: the query is not trimmed.
searchStars_Untrimmed(this, query) ==
  IF ~this.isInitialized THEN NotInitialized
  ELSE LET sanitizedQuery == toLowerCase(query)
           Matches(star) ==
             \/ includes(toLowerCase(star.name), sanitizedQuery)
             \/ /\ "commonName" \in DOMAIN star
                /\ includes(toLowerCase(star.commonName), sanitizedQuery)
       IN  Return(sortByMagnitude(SelectSeq(MapValues(this.stars), Matches)))

\* searchStars(query)
searchStars(this, query) ==
  IF ~this.isInitialized THEN NotInitialized
  ELSE LET sanitizedQuery == trim(toLowerCase(query))
           Matches(star) ==
             LET nameMatch == includes(toLowerCase(star.name), sanitizedQuery)
                 commonNameMatch ==
                   /\ "commonName" \in DOMAIN star
                   /\ includes(toLowerCase(star.commonName), sanitizedQuery)
             IN  nameMatch \/ commonNameMatch
           results == SelectSeq(MapValues(this.stars), Matches)
       IN  Return(sortByMagnitude(results))

----------------------------------------------------------------------------
\* Numbers.  A JavaScript number is an integer in the unit of its quantity, or
\* one of three values that are no integer of the model.

\* NaN: the value of Math.asin and Math.acos outside [-1, 1].
NaN == 2000000001

\* Infinity and -Infinity: the value of a division by a vanishing denominator.
PosInf == 2000000002

NegInf == 2000000003

\* sin and cos values are scaled by TRIG_SCALE, the table's value of sin(90
\* degrees) = 1.0.
TRIG_SCALE == SinTable[901]

Abs(x) == IF x < 0 THEN -x ELSE x

Sign(x) == IF x < 0 THEN -1 ELSE 1

\* n / d rounded to the nearest integer.
RoundDiv(n, d) == Sign(n) * Sign(d) * ((Abs(n) + Abs(d) \div 2) \div Abs(d))

\* x * y of two scaled values.
FMul(x, y) ==
  IF x = NaN \/ y = NaN THEN NaN ELSE RoundDiv(x * y, TRIG_SCALE)

\* x / y of two scaled values.  Math.cos never returns exactly 0 (Math.cos of
\* the double nearest to pi/2 is 6.1e-17), so a denominator that vanishes at the
\* resolution of the model is a tiny positive number: the quotient is 0 for a
\* vanishing numerator and infinite otherwise.
FDiv(x, y) ==
  IF x = NaN \/ y = NaN THEN NaN
  ELSE IF y = 0 THEN (IF x > 0 THEN PosInf ELSE IF x < 0 THEN NegInf ELSE 0)
  ELSE RoundDiv(x * TRIG_SCALE, y)

\* Math.min(a, x) and Math.max(a, x) for a finite a.
MathMin(a, x) ==
  IF x = NaN THEN NaN ELSE IF x = NegInf THEN NegInf
  ELSE IF x = PosInf THEN a ELSE IF x < a THEN x ELSE a

MathMax(a, x) ==
  IF x = NaN THEN NaN ELSE IF x = PosInf THEN PosInf
  ELSE IF x = NegInf THEN a ELSE IF x > a THEN x ELSE a

\* a > b and a <= b on numbers: every comparison with NaN is false.
Gt(a, b) == a # NaN /\ b # NaN /\ a > b

Le(a, b) == a # NaN /\ b # NaN /\ a <= b

\* Math.sin(a * Math.PI / 180) for an angle a in tenths of a degree.
Sin(a) ==
  IF a = NaN THEN NaN
  ELSE LET r == a % 3600
       IN  IF r <= 900 THEN SinTable[r + 1]
           ELSE IF r <= 1800 THEN SinTable[1800 - r + 1]
           ELSE IF r <= 2700 THEN -SinTable[r - 1800 + 1]
           ELSE -SinTable[3600 - r + 1]

\* Math.cos(a * Math.PI / 180) for an angle a in tenths of a degree.
Cos(a) == IF a = NaN THEN NaN ELSE Sin(a + 900)

RECURSIVE AsinSearch(_, _, _)
\* The largest a in lo..hi with SinTable[a + 1] <= x, given SinTable[lo + 1] <= x.
AsinSearch(lo, hi, x) ==
  IF lo = hi THEN lo
  ELSE LET mid == (lo + hi + 1) \div 2
       IN  IF SinTable[mid + 1] <= x THEN AsinSearch(mid, hi, x)
           ELSE AsinSearch(lo, mid - 1, x)

\* Math.asin(x) * 180 / Math.PI in tenths of a degree, NaN outside [-1, 1].
Asin(x) ==
  IF x = NaN \/ Abs(x) > TRIG_SCALE THEN NaN
  ELSE LET ax == Abs(x)
           a == AsinSearch(0, 900, ax)
           nearest == IF a < 900 /\ SinTable[a + 2] - ax < ax - SinTable[a + 1]
                        THEN a + 1 ELSE a
       IN  Sign(x) * nearest

\* Math.acos(x) * 180 / Math.PI in tenths of a degree, NaN outside [-1, 1].
Acos(x) == IF Asin(x) = NaN THEN NaN ELSE 900 - Asin(x)

----------------------------------------------------------------------------
\* Floating point.  Where the rounding of a double decides the result (a
\* conversion there and back, a sum that no longer changes a large number), a
\* number is a binary floating-point value m * 2^e whose significand m has
\* PRECISION bits instead of the 53 of a double; every operation rounds its exact
\* result to the nearest such value, ties to even, as IEEE 754 does.

\* Bits of the significand.
PRECISION == 12

\* 2^k.
Pow2(k) == 2 ^ k

\* The number of bits of n > 0.
BitLength(n) == CHOOSE k \in 1..30 : Pow2(k - 1) <= n /\ n < Pow2(k)

FltZero == [m |-> 0, e |-> 0]

\* The value of an operation that has no number as its result (0 / 0).
FltNaN == [m |-> 0, e |-> NaN]

\* The number sign * m * 2^e for a rounded significand m, which has
\* PRECISION bits or is 2^PRECISION after a carry.
FltCarry(sign, m, e) ==
  IF m = Pow2(PRECISION) THEN [m |-> sign * Pow2(PRECISION - 1), e |-> e + 1]
  ELSE [m |-> sign * m, e |-> e]

\* sign * (q * 2^s + r) * 2^e with the s low bits r rounded off: to the nearest,
\* and to the even q when r is half a unit of q and nothing lies above it.
FltRoundOff(sign, q, r, s, e, sticky) ==
  FltCarry(sign,
           IF r > Pow2(s - 1) \/ (r = Pow2(s - 1) /\ (sticky \/ q % 2 = 1))
             THEN q + 1 ELSE q,
           e + s)

\* sign * a * 2^e for a > 0 of len bits, taken to PRECISION bits.
FltRoundBits(sign, a, len, e, sticky) ==
  IF len <= PRECISION
    THEN [m |-> sign * a * Pow2(PRECISION - len), e |-> e - (PRECISION - len)]
    ELSE FltRoundOff(sign, a \div Pow2(len - PRECISION), a % Pow2(len - PRECISION),
                     len - PRECISION, e, sticky)

\* n * 2^e rounded to PRECISION bits; sticky tells that the exact value lies
\* above n * 2^e in magnitude by less than one unit of n.
FltRound(n, e, sticky) ==
  IF n = 0 THEN FltZero
  ELSE FltRoundBits(Sign(n), Abs(n), BitLength(Abs(n)), e, sticky)

\* The number nearest to the integer n.
FltOf(n) == FltRound(n, 0, FALSE)

FltNeg(x) == IF x = FltNaN THEN FltNaN ELSE [m |-> -x.m, e |-> x.e]

\* Math.abs(x)
FltAbs(x) == IF x = FltNaN THEN FltNaN ELSE [m |-> Abs(x.m), e |-> x.e]

\* x * y
FltMul(x, y) ==
  IF x = FltNaN \/ y = FltNaN THEN FltNaN
  ELSE FltRound(x.m * y.m, x.e + y.e, FALSE)

\* x / y.  No divisor of the model is zero but for 0 / 0 and x / 0, whose
\* values (NaN, Infinity) are no numbers.
FltDiv(x, y) ==
  IF x = FltNaN \/ y = FltNaN \/ y.m = 0 THEN FltNaN
  ELSE LET n == Abs(x.m) * Pow2(PRECISION + 2)
           q == n \div Abs(y.m)
       IN  FltRound(Sign(x.m) * Sign(y.m) * q, x.e - y.e - (PRECISION + 2),
                    n % Abs(y.m) # 0)

\* x + y.  An operand more than PRECISION + 2 binary places below the other is
\* below half a unit of its last place and is absorbed.
FltAdd(x, y) ==
  IF x = FltNaN \/ y = FltNaN THEN FltNaN
  ELSE IF x.m = 0 THEN y
  ELSE IF y.m = 0 THEN x
  ELSE LET hi == IF x.e >= y.e THEN x ELSE y
           lo == IF x.e >= y.e THEN y ELSE x
           d == hi.e - lo.e
       IN  IF d > PRECISION + 2 THEN hi
           ELSE FltRound(hi.m * Pow2(d) + lo.m, lo.e, FALSE)

\* x - y
FltSub(x, y) == FltAdd(x, FltNeg(y))

\* x < y; every comparison with NaN is false.
FltLess(x, y) == x # FltNaN /\ y # FltNaN /\ FltSub(x, y).m < 0

\* The number nearest to n / d, for integers n and d.
FltRatio(n, d) == FltDiv(FltOf(n), FltOf(d))

\* x * scale rounded to the nearest integer, for a number x of magnitude below
\* 2^30 / scale.
FltScaled(x, scale) ==
  IF x = FltNaN THEN NaN
  ELSE IF x.e >= 0 THEN x.m * Pow2(x.e) * scale
  ELSE IF -x.e > 30 - BitLength(scale) THEN 0
  ELSE RoundDiv(x.m * scale, Pow2(-x.e))

\* Math.PI
MathPI == FltRatio(355, 113)

\* Math.sin(x) and Math.cos(x) for x in radians: the table's value at the
\* nearest tenth of a degree (180 / pi radians are 572.96 tenths).
MathSin(x) ==
  IF x = FltNaN THEN FltNaN
  ELSE FltRatio(Sin(IF x.e >= 0 THEN RoundDiv(x.m * Pow2(x.e) * 57296, 100)
                    ELSE IF -x.e > 24 THEN 0
                    ELSE RoundDiv(x.m * 57296, 100 * Pow2(-x.e))), TRIG_SCALE)

MathCos(x) ==
  IF x = FltNaN THEN FltNaN
  ELSE FltRatio(Cos(IF x.e >= 0 THEN RoundDiv(x.m * Pow2(x.e) * 57296, 100)
                    ELSE IF -x.e > 24 THEN 0
                    ELSE RoundDiv(x.m * 57296, 100 * Pow2(-x.e))), TRIG_SCALE)

----------------------------------------------------------------------------
\* Time

\* A Date, by its UTC getters.
J2000 ==
  [year |-> 2000, month |-> 0, date |-> 1, hours |-> 12, minutes |-> 0, seconds |-> 0]

\* Mutant of dateToJulianDay: getUTCMonth() is taken as the month number,
\* without the + 1.
dateToJulianDay_MonthFromZero(date) ==
  LET a == (14 - date.month) \div 12
      y == date.year + 4800 - a
      m == date.month + 12 * a - 3
      jdn == date.date + (153 * m + 2) \div 5 + 365 * y
             + y \div 4 - y \div 100 + y \div 400 - 32045
  IN  [day |-> jdn,
       sec |-> (date.hours - 12) * 3600 + date.minutes * 60 + date.seconds]

\* Mutant of dateToJulianDay: the century terms of the leap year rule are left
\* out.
dateToJulianDay_EveryFourthYear(date) ==
  LET a == (14 - (date.month + 1)) \div 12
      y == date.year + 4800 - a
      m == (date.month + 1) + 12 * a - 3
      jdn == date.date + (153 * m + 2) \div 5 + 365 * y + y \div 4 - 32045
  IN  [day |-> jdn,
       sec |-> (date.hours - 12) * 3600 + date.minutes * 60 + date.seconds]

\* dateToJulianDay(date).  The Julian day exceeds the integer range once scaled
\* to seconds, so it is held as whole days (the jdn of the code) plus the
\* fraction of a day in seconds.
dateToJulianDay(date) ==
  LET a == (14 - (date.month + 1)) \div 12
      y == date.year + 4800 - a
      m == (date.month + 1) + 12 * a - 3
      jdn == date.date + (153 * m + 2) \div 5 + 365 * y
             + y \div 4 - y \div 100 + y \div 400 - 32045
  IN  [day |-> jdn,
       sec |-> (date.hours - 12) * 3600 + date.minutes * 60 + date.seconds]

RECURSIVE normalizeAngle(_)
\* normalizeAngle(angle), angle in tenths of a degree.
normalizeAngle(angle) ==
  IF angle = NaN THEN NaN
  ELSE IF angle < 0 THEN normalizeAngle(angle + 3600)
  ELSE IF angle >= 3600 THEN normalizeAngle(angle - 3600)
  ELSE angle

\* calculateLocalSiderealTime(longitude, timestamp), in tenths of a degree.
\* 360.98564736629 * (jd - 2451545.0) is taken on the whole days and on the
\* seconds separately; the t*t and t*t*t terms are below 1e-6 degree within a
\* century of J2000 and vanish at this resolution.
calculateLocalSiderealTime(longitude, timestamp) ==
  LET jd == dateToJulianDay(timestamp)
      days == jd.day - 2451545
      gmst == 2805 + RoundDiv(days * 36098565, 10000) + RoundDiv(jd.sec * 361, 8640)
      lst == normalizeAngle(gmst) + longitude
  IN  normalizeAngle(lst)

----------------------------------------------------------------------------
\* Spherical geometry

\* celestialToHorizontal(celestial, location, timestamp)
celestialToHorizontal(celestial, location, timestamp) ==
  LET lst == calculateLocalSiderealTime(location.longitude, timestamp)
      hourAngle == lst - celestial.ra
      sinAlt == FMul(Sin(celestial.dec), Sin(location.latitude))
                + FMul(FMul(Cos(celestial.dec), Cos(location.latitude)), Cos(hourAngle))
      altitude == Asin(sinAlt)
      cosAz == FDiv(Sin(celestial.dec) - FMul(Sin(location.latitude), sinAlt),
                    FMul(Cos(location.latitude), Cos(Asin(sinAlt))))
      azimuth == Acos(MathMax(-TRIG_SCALE, MathMin(TRIG_SCALE, cosAz)))
  IN  [azimuth |-> IF Sin(hourAngle) > 0 /\ azimuth # NaN THEN 3600 - azimuth ELSE azimuth,
       altitude |-> altitude]

\* Mutant of isAboveHorizon: altitude >= -0.5
isAboveHorizon_AtOrAbove(star, location, timestamp) ==
  LET horizontal == celestialToHorizontal([ra |-> star.ra, dec |-> star.dec],
                                          location, timestamp)
  IN  Le(-5, horizontal.altitude)

\* isAboveHorizon(star, location, timestamp): altitude > -0.5
isAboveHorizon(star, location, timestamp) ==
  LET horizontal == celestialToHorizontal([ra |-> star.ra, dec |-> star.dec],
                                          location, timestamp)
  IN  Gt(horizontal.altitude, -5)

\* calculateAngularDistance(coord1, coord2), in tenths of a degree.
calculateAngularDistance(coord1, coord2) ==
  LET deltaRa == coord2.ra - coord1.ra
  IN  Acos(FMul(Sin(coord1.dec), Sin(coord2.dec))
           + FMul(FMul(Cos(coord1.dec), Cos(coord2.dec)), Cos(deltaRa)))

\* getVisibleStars(location, maxMagnitude, timestamp)
getVisibleStars(this, location, maxMagnitude, timestamp) ==
  IF ~this.isInitialized THEN NotInitialized
  ELSE LET Visible(star) ==
             /\ ~(star.magnitude > maxMagnitude)
             /\ isAboveHorizon(star, location, timestamp)
           visibleStars == SelectSeq(MapValues(this.stars), Visible)
       IN  Return(sortByMagnitude(visibleStars))

\* getStarsInView(centerCoordinate, fieldOfViewDegrees, maxMagnitude);
\* fieldOfViewDegrees is in tenths of a degree; maxDistance = fieldOfViewDegrees / 2
\* is held in twentieths, so distance <= maxDistance compares 2 * distance.
getStarsInView(this, centerCoordinate, fieldOfViewDegrees, maxMagnitude) ==
  IF ~this.isInitialized THEN NotInitialized
  ELSE LET InView(star) ==
             /\ ~(star.magnitude > maxMagnitude)
             /\ LET distance == calculateAngularDistance(
                                  [ra |-> star.ra, dec |-> star.dec], centerCoordinate)
                    maxDistance == fieldOfViewDegrees
                IN  distance # NaN /\ 2 * distance <= maxDistance
           starsInView == SelectSeq(MapValues(this.stars), InView)
       IN  Return(sortByMagnitude(starsInView))

----------------------------------------------------------------------------
\* Orbital mechanics

RECURSIVE SqrtSearch(_, _, _)
\* The largest r in lo..hi with r * r <= n.
SqrtSearch(lo, hi, n) ==
  IF lo = hi THEN lo
  ELSE LET mid == (lo + hi + 1) \div 2
       IN  IF mid * mid <= n THEN SqrtSearch(mid, hi, n) ELSE SqrtSearch(lo, mid - 1, n)

\* Math.sqrt(n), rounded down, for 0 <= n.
Sqrt(n) == SqrtSearch(0, 46340, n)

RECURSIVE AtanSearch(_, _, _, _)
\* The largest a in lo..hi with tan(a) <= y / x, for x >= 0 and y >= 0.
AtanSearch(lo, hi, y, x) ==
  IF lo = hi THEN lo
  ELSE LET mid == (lo + hi + 1) \div 2
       IN  IF Sin(mid) * x <= Cos(mid) * y THEN AtanSearch(mid, hi, y, x)
           ELSE AtanSearch(lo, mid - 1, y, x)

\* Math.atan2(y, x) * 180 / Math.PI in tenths of a degree, in (-1800, 1800].
Atan2(y, x) ==
  IF y = NaN \/ x = NaN THEN NaN
  ELSE IF x = 0 /\ y = 0 THEN 0
  ELSE LET a == AtanSearch(0, 900, Abs(y), Abs(x))
       IN  IF x >= 0 THEN (IF y >= 0 THEN a ELSE -a)
           ELSE (IF y >= 0 THEN 1800 - a ELSE a - 1800)

\* rate * (jd - epoch) / per, for a rate per day and the Julian day epoch.
TimesDaysSince(jd, epoch, rate, per) ==
  RoundDiv((jd.day - epoch) * rate, per) + RoundDiv(jd.sec * rate, 86400 * per)

\* calculateSunPosition(timestamp)
calculateSunPosition(timestamp) ==
  LET jd == dateToJulianDay(timestamp)
      L == normalizeAngle(2805 + TimesDaysSince(jd, 2451545, 9856, 1000))
      g == normalizeAngle(3575 + TimesDaysSince(jd, 2451545, 9856, 1000))
      lambda == normalizeAngle(L + RoundDiv(1915 * Sin(g), 100 * TRIG_SCALE)
                                 + RoundDiv(2 * Sin(2 * g), 10 * TRIG_SCALE))
      obliquity == 234
      ra == Atan2(FMul(Cos(obliquity), Sin(lambda)), Cos(lambda))
      dec == Asin(FMul(Sin(obliquity), Sin(lambda)))
  IN  [ra |-> normalizeAngle(ra), dec |-> dec]

RECURSIVE KeplerIterate_OneMoreIteration(_, _, _, _)
\* Mutant of KeplerIterate: the loop runs while i <= 10.
KeplerIterate_OneMoreIteration(i, E, M, eccentricity) ==
  IF ~(i <= 10) THEN [E |-> E, iterations |-> i, break |-> FALSE]
  ELSE LET dE == FltDiv(FltSub(FltSub(E, FltMul(eccentricity, MathSin(E))), M),
                        FltSub(FltOf(1), FltMul(eccentricity, MathCos(E))))
       IN  IF FltLess(FltAbs(dE), FltRatio(1, 100000000))
             THEN [E |-> FltSub(E, dE), iterations |-> i + 1, break |-> TRUE]
             ELSE KeplerIterate_OneMoreIteration(i + 1, FltSub(E, dE), M, eccentricity)

RECURSIVE KeplerIterate(_, _, _, _)
\* The Newton-Raphson loop of solveKeplerEquation from iteration i on, with E
\* and M in radians: the estimate the loop ends with, the number of iterations
\* it has made, and whether it ended by the break.
KeplerIterate(i, E, M, eccentricity) ==
  IF ~(i < 10) THEN [E |-> E, iterations |-> i, break |-> FALSE]
  ELSE LET dE == FltDiv(FltSub(FltSub(E, FltMul(eccentricity, MathSin(E))), M),
                        FltSub(FltOf(1), FltMul(eccentricity, MathCos(E))))
       IN  IF FltLess(FltAbs(dE), FltRatio(1, 100000000))
             THEN [E |-> FltSub(E, dE), iterations |-> i + 1, break |-> TRUE]
             ELSE KeplerIterate(i + 1, FltSub(E, dE), M, eccentricity)

\* solveKeplerEquation(meanAnomaly, eccentricity): meanAnomaly and the result
\* are in degrees.
solveKeplerEquation(meanAnomaly, eccentricity) ==
  LET M == FltDiv(FltMul(meanAnomaly, MathPI), FltOf(180))
      E == KeplerIterate(0, M, M, eccentricity).E
  IN  FltDiv(FltMul(E, FltOf(180)), MathPI)

\* calculateTrueAnomaly(eccentricAnomaly, eccentricity)
calculateTrueAnomaly(eccentricAnomaly, eccentricity) ==
  LET halfE == RoundDiv(eccentricAnomaly, 2)
      nu == 2 * Atan2(FMul(Sqrt((TRIG_SCALE + eccentricity) * TRIG_SCALE), Sin(halfE)),
                      FMul(Sqrt((TRIG_SCALE - eccentricity) * TRIG_SCALE), Cos(halfE)))
  IN  normalizeAngle(nu)

\* calculateHeliocentricCoordinates(planet, trueAnomaly), in thousandths of an AU.
calculateHeliocentricCoordinates(planet, trueAnomaly) ==
  LET nu == trueAnomaly
      omega == planet.orbitalElements.argumentOfPeriapsis
      Omega == planet.orbitalElements.longitudeOfAscendingNode
      i == planet.orbitalElements.inclination
      e == planet.orbitalElements.eccentricity
      a == planet.orbitalElements.semiMajorAxis
      r == RoundDiv(a * (TRIG_SCALE - FMul(e, e)), TRIG_SCALE + FMul(e, Cos(nu)))
      xOrb == FMul(r, Cos(nu))
      yOrb == FMul(r, Sin(nu))
      x == FMul(xOrb, FMul(Cos(omega), Cos(Omega)) - FMul(FMul(Sin(omega), Sin(Omega)), Cos(i)))
           + FMul(yOrb, -FMul(Sin(omega), Cos(Omega)) - FMul(FMul(Cos(omega), Sin(Omega)), Cos(i)))
      y == FMul(xOrb, FMul(Cos(omega), Sin(Omega)) + FMul(FMul(Sin(omega), Cos(Omega)), Cos(i)))
           + FMul(yOrb, -FMul(Sin(omega), Sin(Omega)) + FMul(FMul(Cos(omega), Cos(Omega)), Cos(i)))
      z == FMul(xOrb, FMul(Sin(omega), Sin(i))) + FMul(yOrb, FMul(Cos(omega), Sin(i)))
  IN  [x |-> x, y |-> y, z |-> z]

\* heliocentricToGeocentric(helioCoords, sunPos, timestamp): sunPos and
\* timestamp are not used.
heliocentricToGeocentric(helioCoords, sunPos, timestamp) ==
  LET x == helioCoords.x
      y == helioCoords.y
      z == helioCoords.z
      distance == Sqrt(x * x + y * y + z * z)
      longitude == Atan2(y, x)
      latitude == Asin(FDiv(z, distance))
      obliquity == 234
      lambdaRad == longitude
      betaRad == latitude
      ra == Atan2(FMul(Cos(obliquity), Sin(lambdaRad))
                  - FMul(Sin(obliquity), FDiv(Sin(betaRad), Cos(betaRad))),
                  Cos(lambdaRad))
      dec == Asin(FMul(Sin(obliquity), Sin(lambdaRad)) + FMul(Cos(obliquity), Sin(betaRad)))
  IN  [ra |-> normalizeAngle(ra), dec |-> dec]

\* Mutant of calculatePlanetPosition: a body of type 'sun' is given the Sun's
\* position only when it has no orbit of its own.
calculatePlanetPosition_SunByElements(planet, timestamp) ==
  IF planet.type = "sun" /\ planet.orbitalElements.semiMajorAxis = 0
    THEN calculateSunPosition(timestamp)
  ELSE LET jd == dateToJulianDay(timestamp)
           meanAnomaly == normalizeAngle(
             planet.orbitalElements.meanAnomalyAtEpoch
             + TimesDaysSince(jd, planet.orbitalElements.epoch,
                              planet.orbitalElements.dailyMotion, 100))
       IN  heliocentricToGeocentric(
             calculateHeliocentricCoordinates(
               planet,
               calculateTrueAnomaly(
                 FltScaled(solveKeplerEquation(
                             FltRatio(meanAnomaly, 10),
                             FltRatio(planet.orbitalElements.eccentricity, TRIG_SCALE)),
                           10),
                 planet.orbitalElements.eccentricity)),
             calculateSunPosition(timestamp), timestamp)

\* calculatePlanetPosition(planet, timestamp).  The eccentric anomaly (in tenths
\* of a degree), the true anomaly, the heliocentric coordinates and the Sun's
\* position pass from each step to the next as its arguments.
calculatePlanetPosition(planet, timestamp) ==
  IF planet.type = "sun" THEN calculateSunPosition(timestamp)
  ELSE LET jd == dateToJulianDay(timestamp)
           meanAnomaly == normalizeAngle(
             planet.orbitalElements.meanAnomalyAtEpoch
             + TimesDaysSince(jd, planet.orbitalElements.epoch,
                              planet.orbitalElements.dailyMotion, 100))
       IN  heliocentricToGeocentric(
             calculateHeliocentricCoordinates(
               planet,
               calculateTrueAnomaly(
                 FltScaled(solveKeplerEquation(
                             FltRatio(meanAnomaly, 10),
                             FltRatio(planet.orbitalElements.eccentricity, TRIG_SCALE)),
                           10),
                 planet.orbitalElements.eccentricity)),
             calculateSunPosition(timestamp), timestamp)

\* getVisiblePlanets(location, timestamp)
getVisiblePlanets(this, location, timestamp) ==
  IF ~this.isInitialized THEN NotInitialized
  ELSE LET Entry(planet) ==
             LET position == calculatePlanetPosition(planet, timestamp)
             IN  [id |-> planet.id, name |-> planet.name, commonName |-> planet.commonName,
                  type |-> planet.type, orbitalElements |-> planet.orbitalElements,
                  position |-> position,
                  horizontal |-> celestialToHorizontal(position, location, timestamp)]
           all == [k \in 1..Len(this.planets) |-> Entry(this.planets[k])]
           Visible(entry) == Gt(entry.horizontal.altitude, -5)
       IN  Return(SelectSeq(all, Visible))

----------------------------------------------------------------------------
\* Arguments the callers pass

SanDiego == [latitude |-> 327, longitude |-> -1172]

\* The latitude of San Diego in the middle of the Atlantic.
MidAtlantic == [latitude |-> 327, longitude |-> -300]

Locations == {SanDiego, MidAtlantic}

\* 2000-01-02T16:00:00Z
NextAfternoon ==
  [year |-> 2000, month |-> 0, date |-> 2, hours |-> 16, minutes |-> 0, seconds |-> 0]

Timestamps == {J2000, NextAfternoon}

MaxMagnitudes == {400, 150}

\* The coordinates of Betelgeuse and of Polaris.
Centers == {[ra |-> 888, dec |-> 74], [ra |-> 380, dec |-> 893]}

FieldsOfView == {100, 3600}

Queries == {"vega", "VEGA", " Vega ", "alpha u", "", "zz"}

StarIds == {"hip_91262", "hip_60718"}

PlanetIds == {"mars", "pluto"}

ConstellationIds == {"orion", "crux"}

----------------------------------------------------------------------------
\* Calls.  A JavaScript call runs to completion, so a query is one step: it
\* leaves its result with the caller, who takes it before the next call is made.

\* Mutant of CallGetVisibleStars: the sort is applied to the catalog's own
\* collection instead of a copy.
CallGetVisibleStars_SortsCatalog ==
  \E r \in Readers, location \in Locations, maxMagnitude \in MaxMagnitudes,
     timestamp \in Timestamps :
    /\ instance
    /\ call.op = "none"
    /\ call' = [caller |-> r, op |-> "getVisibleStars", location |-> location,
                maxMagnitude |-> maxMagnitude, timestamp |-> timestamp]
    /\ outcome' = getVisibleStars(This, location, maxMagnitude, timestamp)
    /\ stars' = IF isInitialized THEN sortByMagnitude(stars) ELSE stars
    /\ UNCHANGED <<pageVars, starData, instance, constellations, planets, isInitialized,
                   initCalls, initOutcome>>

CallGetVisibleStars ==
  \E r \in Readers, location \in Locations, maxMagnitude \in MaxMagnitudes,
     timestamp \in Timestamps :
    /\ instance
    /\ call.op = "none"
    /\ call' = [caller |-> r, op |-> "getVisibleStars", location |-> location,
                maxMagnitude |-> maxMagnitude, timestamp |-> timestamp]
    /\ outcome' = getVisibleStars(This, location, maxMagnitude, timestamp)
    /\ UNCHANGED <<pageVars, starData, instance, stars, constellations, planets,
                   isInitialized, initCalls, initOutcome>>

\* Mutant of CallGetStarsInView: the stars above the magnitude limit are
\* removed from the catalog's collection.
CallGetStarsInView_DropsFaintStars ==
  \E r \in Readers, center \in Centers, fov \in FieldsOfView,
     maxMagnitude \in MaxMagnitudes :
    /\ instance
    /\ call.op = "none"
    /\ call' = [caller |-> r, op |-> "getStarsInView", centerCoordinate |-> center,
                fieldOfViewDegrees |-> fov, maxMagnitude |-> maxMagnitude]
    /\ outcome' = getStarsInView(This, center, fov, maxMagnitude)
    /\ stars' = IF isInitialized
                  THEN SelectSeq(stars, LAMBDA star : ~(star.magnitude > maxMagnitude))
                  ELSE stars
    /\ UNCHANGED <<pageVars, starData, instance, constellations, planets, isInitialized,
                   initCalls, initOutcome>>

CallGetStarsInView ==
  \E r \in Readers, center \in Centers, fov \in FieldsOfView,
     maxMagnitude \in MaxMagnitudes :
    /\ instance
    /\ call.op = "none"
    /\ call' = [caller |-> r, op |-> "getStarsInView", centerCoordinate |-> center,
                fieldOfViewDegrees |-> fov, maxMagnitude |-> maxMagnitude]
    /\ outcome' = getStarsInView(This, center, fov, maxMagnitude)
    /\ UNCHANGED <<pageVars, starData, instance, stars, constellations, planets,
                   isInitialized, initCalls, initOutcome>>

CallSearchStars ==
  \E r \in Readers, query \in Queries :
    /\ instance
    /\ call.op = "none"
    /\ call' = [caller |-> r, op |-> "searchStars", query |-> query]
    /\ outcome' = searchStars(This, query)
    /\ UNCHANGED <<pageVars, starData, instance, stars, constellations, planets,
                   isInitialized, initCalls, initOutcome>>

CallGetVisiblePlanets ==
  \E r \in Readers, location \in Locations, timestamp \in Timestamps :
    /\ instance
    /\ call.op = "none"
    /\ call' = [caller |-> r, op |-> "getVisiblePlanets", location |-> location,
                timestamp |-> timestamp]
    /\ outcome' = getVisiblePlanets(This, location, timestamp)
    /\ UNCHANGED <<pageVars, starData, instance, stars, constellations, planets,
                   isInitialized, initCalls, initOutcome>>

CallGetStar ==
  \E r \in Readers, id \in StarIds :
    /\ instance
    /\ call.op = "none"
    /\ call' = [caller |-> r, op |-> "getStar", id |-> id]
    /\ outcome' = getStar(This, id)
    /\ UNCHANGED <<pageVars, starData, instance, stars, constellations, planets,
                   isInitialized, initCalls, initOutcome>>

CallGetPlanet ==
  \E r \in Readers, id \in PlanetIds :
    /\ instance
    /\ call.op = "none"
    /\ call' = [caller |-> r, op |-> "getPlanet", id |-> id]
    /\ outcome' = getPlanet(This, id)
    /\ UNCHANGED <<pageVars, starData, instance, stars, constellations, planets,
                   isInitialized, initCalls, initOutcome>>

CallGetConstellation ==
  \E r \in Readers, id \in ConstellationIds :
    /\ instance
    /\ call.op = "none"
    /\ call' = [caller |-> r, op |-> "getConstellation", id |-> id]
    /\ outcome' = getConstellation(This, id)
    /\ UNCHANGED <<pageVars, starData, instance, stars, constellations, planets,
                   isInitialized, initCalls, initOutcome>>

CallGetPlanets ==
  \E r \in Readers :
    /\ instance
    /\ call.op = "none"
    /\ call' = [caller |-> r, op |-> "getPlanets"]
    /\ outcome' = getPlanets(This)
    /\ UNCHANGED <<pageVars, starData, instance, stars, constellations, planets,
                   isInitialized, initCalls, initOutcome>>

CallGetConstellations ==
  \E r \in Readers :
    /\ instance
    /\ call.op = "none"
    /\ call' = [caller |-> r, op |-> "getConstellations"]
    /\ outcome' = getConstellations(This)
    /\ UNCHANGED <<pageVars, starData, instance, stars, constellations, planets,
                   isInitialized, initCalls, initOutcome>>

CallGetStatistics ==
  \E r \in Readers :
    /\ instance
    /\ call.op = "none"
    /\ call' = [caller |-> r, op |-> "getStatistics"]
    /\ outcome' = getStatistics(This)
    /\ UNCHANGED <<pageVars, starData, instance, stars, constellations, planets,
                   isInitialized, initCalls, initOutcome>>

CallCelestialToHorizontal ==
  \E r \in Readers, celestial \in Centers, location \in Locations,
     timestamp \in Timestamps :
    /\ instance
    /\ call.op = "none"
    /\ call' = [caller |-> r, op |-> "celestialToHorizontal", celestial |-> celestial,
                location |-> location, timestamp |-> timestamp]
    /\ outcome' = Return(celestialToHorizontal(celestial, location, timestamp))
    /\ UNCHANGED <<pageVars, starData, instance, stars, constellations, planets,
                   isInitialized, initCalls, initOutcome>>

CallCalculatePlanetPosition ==
  \E r \in Readers, k \in 1..Len(PLANET_DATA_planets), timestamp \in Timestamps :
    /\ instance
    /\ call.op = "none"
    /\ call' = [caller |-> r, op |-> "calculatePlanetPosition",
                planet |-> PLANET_DATA_planets[k].id, timestamp |-> timestamp]
    /\ outcome' = Return(calculatePlanetPosition(PLANET_DATA_planets[k], timestamp))
    /\ UNCHANGED <<pageVars, starData, instance, stars, constellations, planets,
                   isInitialized, initCalls, initOutcome>>

\* The caller takes the result of its call and goes on.
TakeResult ==
  /\ call.op # "none"
  /\ call' = NoCall
  /\ outcome' = NoOutcome
  /\ UNCHANGED <<pageVars, starData, instance, stars, constellations, planets, isInitialized,
                 initCalls, initOutcome>>

Next ==
  \/ getInstance
  \/ initialize
  \/ CallGetVisibleStars
  \/ CallGetStarsInView
  \/ CallSearchStars
  \/ CallGetVisiblePlanets
  \/ CallGetStar
  \/ CallGetPlanet
  \/ CallGetConstellation
  \/ CallGetPlanets
  \/ CallGetConstellations
  \/ CallGetStatistics
  \/ CallCelestialToHorizontal
  \/ CallCalculatePlanetPosition
  \/ TakeResult

Spec == Init /\ [][Next]_vars

SpecSeed == InitSeed /\ [][Next]_vars

----------------------------------------------------------------------------
\* The numeric methods on their own.  An initial state holds one call with its
\* arguments; the method runs on it and leaves its result.  normalizeAngle runs
\* statement by statement, since its loops are what decides whether it returns.

\* Arguments of normalizeAngle in eighths of a degree: negative, zero, below and
\* at a full turn, several turns, and numbers whose neighbours lie more than 360
\* apart.
AngleEighths ==
  {-5804, -2880, -2879, -4, 0, 1, 2879, 2880, 2881, 5760, 8000, 33554432, -33554432}

NormalizeAngleCalls ==
  {[op |-> "normalizeAngle", x |-> FltRatio(n, 8), angle |-> FltRatio(n, 8),
    pc |-> "while_negative"] : n \in AngleEighths}

\* Dates around the ends of the months, in leap years, in years that are none
\* and in the century years, before and after 2000, at three times of the day.
DateYears == {1900, 1999, 2000, 2023, 2024, 2100}

DateDays == {1, 27, 28, 29, 30, 31}

DateTimes ==
  {[hours |-> 12, minutes |-> 0, seconds |-> 0],
   [hours |-> 0, minutes |-> 0, seconds |-> 0],
   [hours |-> 23, minutes |-> 59, seconds |-> 59]}

\* Whether the Gregorian calendar has year as a leap year.
IsLeapYear(year) == year % 4 = 0 /\ (year % 100 # 0 \/ year % 400 = 0)

\* The days of a month (0 is January) of the Gregorian calendar.
DaysInMonth(year, month) ==
  IF month = 1 THEN (IF IsLeapYear(year) THEN 29 ELSE 28)
  ELSE IF month \in {3, 5, 8, 10} THEN 30 ELSE 31

Dates ==
  {[year |-> y, month |-> m, date |-> d, hours |-> t.hours, minutes |-> t.minutes,
    seconds |-> t.seconds] :
     y \in DateYears, m \in 0..11, d \in DateDays, t \in DateTimes}

DateToJulianDayCalls ==
  {[op |-> "dateToJulianDay", date |-> date] :
     date \in {d \in Dates : d.date <= DaysInMonth(d.year, d.month)}}

\* Mean anomalies in tenths of a degree and eccentricities in ten-thousandths:
\* a circular orbit, the planets' orbits and orbits close to a parabola.
MeanAnomalies == {0, 10, 57, 300, 900, 1234, 1800, 2700, 3599}

Eccentricities == {0, 167, 2056, 2488, 5000, 9000, 9900}

SolveKeplerEquationCalls ==
  {[op |-> "solveKeplerEquation", meanAnomaly |-> FltRatio(M, 10),
    eccentricity |-> FltRatio(e, TRIG_SCALE)] :
     M \in MeanAnomalies, e \in Eccentricities}

\* Right ascensions on the meridian of Greenwich at J2000 (hour angle 0), a
\* tenth of a degree and ten degrees east of it, and opposite to it.
RightAscensions == {2805, 2804, 2705, 1005}

\* Declinations and latitudes: the poles, the equator and places between.
Declinations == {-900, 0, 74, 600, 900}

Latitudes == {-900, 0, 74, 300, 900}

CelestialToHorizontalCalls ==
  {[op |-> "celestialToHorizontal", celestial |-> [ra |-> ra, dec |-> dec],
    location |-> [latitude |-> latitude, longitude |-> 0], timestamp |-> J2000] :
     ra \in RightAscensions, dec \in Declinations, latitude \in Latitudes}

\* Betelgeuse, the point opposite to it, Polaris, the celestial poles and two
\* opposite points of the equator.
Coordinates ==
  {[ra |-> 888, dec |-> 74], [ra |-> 2688, dec |-> -74], [ra |-> 380, dec |-> 893],
   [ra |-> 0, dec |-> 900], [ra |-> 0, dec |-> -900], [ra |-> 0, dec |-> 0],
   [ra |-> 1800, dec |-> 0]}

CalculateAngularDistanceCalls ==
  {[op |-> "calculateAngularDistance", coord1 |-> coord1, coord2 |-> coord2] :
     coord1 \in Coordinates, coord2 \in Coordinates}

\* A body of type 'sun' that carries the orbital elements of Mars.
SunWithOrbit ==
  [id |-> "sun", name |-> "Sun", commonName |-> "Sol", type |-> "sun",
   orbitalElements |-> PLANET_DATA_planets[5].orbitalElements]

CalculatePlanetPositionCalls ==
  {[op |-> "calculatePlanetPosition", planet |-> planet, timestamp |-> timestamp] :
     planet \in {PLANET_DATA_planets[k] : k \in 1..Len(PLANET_DATA_planets)}
                  \cup {SunWithOrbit},
     timestamp \in Timestamps}

NumericCalls ==
  NormalizeAngleCalls \cup DateToJulianDayCalls \cup SolveKeplerEquationCalls
    \cup CelestialToHorizontalCalls \cup CalculateAngularDistanceCalls
    \cup CalculatePlanetPositionCalls

InitNumeric ==
  /\ InitPages
  /\ starData = STAR_DATA
  /\ instance = FALSE
  /\ stars = <<>>
  /\ constellations = <<>>
  /\ planets = <<>>
  /\ isInitialized = FALSE
  /\ initCalls = 0
  /\ initOutcome = "none"
  /\ call \in NumericCalls
  /\ outcome = NoOutcome

\* normalizeAngle: the test of `while (angle < 0)` and of `while (angle >= 360)`.
normalizeAngleTest ==
  /\ call.op = "normalizeAngle"
  /\ call.pc \in {"while_negative", "while_turn"}
  /\ call' = [call EXCEPT !.pc =
                IF call.pc = "while_negative"
                  THEN (IF FltLess(call.angle, FltZero) THEN "add" ELSE "while_turn")
                  ELSE (IF ~FltLess(call.angle, FltOf(360)) /\ call.angle # FltNaN
                          THEN "subtract" ELSE "return")]
  /\ UNCHANGED <<pageVars, starData, instance, stars, constellations, planets, isInitialized,
                 initCalls, initOutcome, outcome>>

\* normalizeAngle: the loop bodies `angle += 360` and `angle -= 360`.
normalizeAngleBody ==
  /\ call.op = "normalizeAngle"
  /\ call.pc \in {"add", "subtract"}
  /\ call' = IF call.pc = "add"
               THEN [call EXCEPT !.angle = FltAdd(call.angle, FltOf(360)),
                                 !.pc = "while_negative"]
               ELSE [call EXCEPT !.angle = FltSub(call.angle, FltOf(360)),
                                 !.pc = "while_turn"]
  /\ UNCHANGED <<pageVars, starData, instance, stars, constellations, planets, isInitialized,
                 initCalls, initOutcome, outcome>>

\* normalizeAngle: `return angle`.
normalizeAngleReturn ==
  /\ call.op = "normalizeAngle"
  /\ call.pc = "return"
  /\ call' = [call EXCEPT !.pc = "done"]
  /\ outcome' = Return(call.angle)
  /\ UNCHANGED <<pageVars, starData, instance, stars, constellations, planets, isInitialized,
                 initCalls, initOutcome>>

RunDateToJulianDay ==
  /\ call.op = "dateToJulianDay"
  /\ outcome = NoOutcome
  /\ outcome' = Return(dateToJulianDay(call.date))
  /\ UNCHANGED <<pageVars, starData, instance, stars, constellations, planets, isInitialized,
                 initCalls, initOutcome, call>>

RunSolveKeplerEquation ==
  /\ call.op = "solveKeplerEquation"
  /\ outcome = NoOutcome
  /\ outcome' = Return(solveKeplerEquation(call.meanAnomaly, call.eccentricity))
  /\ UNCHANGED <<pageVars, starData, instance, stars, constellations, planets, isInitialized,
                 initCalls, initOutcome, call>>

RunCelestialToHorizontal ==
  /\ call.op = "celestialToHorizontal"
  /\ outcome = NoOutcome
  /\ outcome' = Return(celestialToHorizontal(call.celestial, call.location, call.timestamp))
  /\ UNCHANGED <<pageVars, starData, instance, stars, constellations, planets, isInitialized,
                 initCalls, initOutcome, call>>

RunCalculateAngularDistance ==
  /\ call.op = "calculateAngularDistance"
  /\ outcome = NoOutcome
  /\ outcome' = Return(calculateAngularDistance(call.coord1, call.coord2))
  /\ UNCHANGED <<pageVars, starData, instance, stars, constellations, planets, isInitialized,
                 initCalls, initOutcome, call>>

RunCalculatePlanetPosition ==
  /\ call.op = "calculatePlanetPosition"
  /\ outcome = NoOutcome
  /\ outcome' = Return(calculatePlanetPosition(call.planet, call.timestamp))
  /\ UNCHANGED <<pageVars, starData, instance, stars, constellations, planets, isInitialized,
                 initCalls, initOutcome, call>>

NextNumeric ==
  \/ normalizeAngleTest
  \/ normalizeAngleBody
  \/ normalizeAngleReturn
  \/ RunDateToJulianDay
  \/ RunSolveKeplerEquation
  \/ RunCelestialToHorizontal
  \/ RunCalculateAngularDistance
  \/ RunCalculatePlanetPosition

\* The engine runs a call until it returns: a statement of normalizeAngle that
\* can be executed is executed.
SpecNumeric ==
  /\ InitNumeric
  /\ [][NextNumeric]_vars
  /\ WF_vars(normalizeAngleTest \/ normalizeAngleBody \/ normalizeAngleReturn)

----------------------------------------------------------------------------
\* Properties

\* The methods that return stars in brightness order.
StarListOps == {"getVisibleStars", "getStarsInView", "searchStars"}

\* The catalog queries.
CatalogQueryOps ==
  StarListOps \cup {"getVisiblePlanets", "getStar", "getPlanet", "getPlanets",
                    "getConstellation", "getConstellations", "getStatistics"}

\* A call of one of the methods in ops has returned a value.
Returned(ops) == call.op \in ops /\ outcome.kind = "value"

Ids(seq) == {seq[i].id : i \in 1..Len(seq)}

\* C1: a query issued before initialize() has completed fails with the
\* not-ready error instead of returning a value.
C1_QueryBeforeInitializeFails ==
  (call.op \in CatalogQueryOps /\ ~isInitialized) => outcome = NotInitialized

\* The star ids a table's constellations name, as members or as line endpoints.
ReferencedIds(constellationSeq) ==
  UNION {{constellationSeq[i].stars[k] : k \in 1..Len(constellationSeq[i].stars)}
         \cup {constellationSeq[i].lines[k].from : k \in 1..Len(constellationSeq[i].lines)}
         \cup {constellationSeq[i].lines[k].to : k \in 1..Len(constellationSeq[i].lines)}
         : i \in 1..Len(constellationSeq)}

HasDanglingReference(data) ==
  \E id \in ReferencedIds(data.constellations) : id \notin Ids(data.stars)

C3_QueriesLeaveCatalogUnchanged ==
  [][(call.op = "none" /\ call'.op # "none") => UNCHANGED catalogVars]_vars

\* C3 witness: a query has returned a sorted list of several stars from the
\* loaded catalog.
C3_Witness ==
  /\ Returned({"getVisibleStars"})
  /\ Len(outcome.value) > 10
  /\ Len(stars) = Len(STAR_DATA_stars)

NonDecreasingMagnitude(seq) ==
  \A i \in 1..Len(seq) : \A j \in i..Len(seq) : seq[i].magnitude <= seq[j].magnitude

\* C5: every star sequence a query returns is non-decreasing in magnitude.
C5_ResultsSortedByMagnitude ==
  Returned(StarListOps) => NonDecreasingMagnitude(outcome.value)

\* C5 witness: a query has returned stars that the catalog holds in another
\* order than by magnitude.
C5_Witness ==
  /\ Returned(StarListOps)
  /\ \E i \in 1..Len(outcome.value) : \E j \in 1..Len(outcome.value) :
       /\ outcome.value[i].magnitude < outcome.value[j].magnitude
       /\ MapIndex(stars, outcome.value[i].id) > MapIndex(stars, outcome.value[j].id)

\* The characters of the model in UTF-16 code unit order (what < on JavaScript
\* strings compares).
CodeOrder == " 0123456789ABCDEFGHIJKLMNOPQRSTUVWXYZ_abcdefghijklmnopqrstuvwxyz"

RECURSIVE StrLess(_, _)
\* a < b on JavaScript strings: lexicographic by code unit.
StrLess(a, b) ==
  IF b = "" THEN FALSE
  ELSE IF a = "" THEN TRUE
  ELSE LET ca == IndexIn(Head(a), CodeOrder)
           cb == IndexIn(Head(b), CodeOrder)
       IN  IF ca # cb THEN ca < cb ELSE StrLess(Tail(a), Tail(b))

\* C6: stars of equal magnitude in a query result appear in ascending id order.
C6_TiesInAscendingIdOrder ==
  Returned(StarListOps) =>
    \A i \in 1..Len(outcome.value) : \A j \in (i + 1)..Len(outcome.value) :
      outcome.value[i].magnitude = outcome.value[j].magnitude
        => StrLess(outcome.value[i].id, outcome.value[j].id)

\* C9: after initialize() every star id a constellation names, as a member or
\* as a line endpoint, is the id of a star of the star collection.
C9_ConstellationStarsExist ==
  isInitialized => \A id \in ReferencedIds(constellations) : MapHas(stars, id)

\* C9 witness: the catalog is loaded with the bundled constellations, lines
\* included.
C9_Witness ==
  /\ isInitialized
  /\ Len(constellations) = Len(STAR_DATA_constellations)
  /\ \E i \in 1..Len(constellations) : Len(constellations[i].lines) > 0

\* The altitude celestialToHorizontal computes for a coordinate, in tenths of a
\* degree.
AltitudeOf(coordinate, location, timestamp) ==
  celestialToHorizontal([ra |-> coordinate.ra, dec |-> coordinate.dec],
                        location, timestamp).altitude

\* The bodies a visibility query has decided on: the stars within the magnitude
\* limit for getVisibleStars, all planets for getVisiblePlanets, each with the
\* altitude computed for the location and timestamp of the call.
BodiesConsidered ==
  IF call.op = "getVisibleStars"
    THEN {[id |-> stars[i].id,
           altitude |-> AltitudeOf(stars[i], call.location, call.timestamp)] :
          i \in {k \in 1..Len(stars) : stars[k].magnitude <= call.maxMagnitude}}
    ELSE {[id |-> planets[i].id,
           altitude |-> AltitudeOf(calculatePlanetPosition(planets[i], call.timestamp),
                                   call.location, call.timestamp)] :
          i \in 1..Len(planets)}

VisibilityOps == {"getVisibleStars", "getVisiblePlanets"}

\* C4 as stated: a visibility query excludes every body whose computed altitude
\* is below -0.5 degrees and includes every body, within the magnitude limit,
\* whose computed altitude is at or above -0.5 degrees.
C4_IncludesAtOrAboveMargin ==
  Returned(VisibilityOps) =>
    \A body \in BodiesConsidered :
      /\ Gt(-5, body.altitude) => body.id \notin Ids(outcome.value)
      /\ Le(-5, body.altitude) => body.id \in Ids(outcome.value)

\* C4 amended: a visibility query returns exactly the bodies, within the
\* magnitude limit, whose computed altitude is strictly above -0.5 degrees; a
\* body at exactly -0.5 degrees is excluded.
C4_IncludesStrictlyAboveMargin ==
  Returned(VisibilityOps) =>
    Ids(outcome.value) = {body.id : body \in {x \in BodiesConsidered : Gt(x.altitude, -5)}}

\* C4 witness: a visibility query has decided on a body at exactly -0.5 degrees,
\* on one below and on one above.
C4_Witness ==
  /\ Returned(VisibilityOps)
  /\ \E body \in BodiesConsidered : body.altitude = -5
  /\ \E body \in BodiesConsidered : body.altitude < -5
  /\ \E body \in BodiesConsidered : body.id \in Ids(outcome.value)

\* Angular separation as specified: the spherical law of cosines with the
\* cosine clamped to [-1, 1] before the arc cosine, in tenths of a degree.
angularSeparationDeg(a, b) ==
  Acos(MathMax(-TRIG_SCALE, MathMin(TRIG_SCALE,
         FMul(Sin(a.dec), Sin(b.dec))
         + FMul(FMul(Cos(a.dec), Cos(b.dec)), Cos(b.ra - a.ra)))))

\* C7: getStarsInView returns exactly the catalog stars whose angular
\* separation from the center is at most half the field of view and whose
\* magnitude is at most maxMagnitude.
C7_StarsInViewExact ==
  Returned({"getStarsInView"}) =>
    Ids(outcome.value) =
      {stars[i].id : i \in {k \in 1..Len(stars) :
         /\ 2 * angularSeparationDeg(stars[k], call.centerCoordinate)
              <= call.fieldOfViewDegrees
         /\ stars[k].magnitude <= call.maxMagnitude}}

\* The stars whose name or common name contains q, both in lower case.
StarsContaining(q) ==
  {stars[i].id : i \in {k \in 1..Len(stars) :
     \/ includes(toLowerCase(stars[k].name), q)
     \/ includes(toLowerCase(stars[k].commonName), q)}}

\* C8 as stated: searchStars returns exactly the stars whose name or common
\* name contains the query as a substring, compared case-insensitively.
C8_MatchesQueryAsGiven ==
  Returned({"searchStars"}) =>
    Ids(outcome.value) = StarsContaining(toLowerCase(call.query))

\* C8 amended: searchStars returns exactly the stars whose name or common name
\* contains the query with its leading and trailing white space removed,
\* compared case-insensitively; every casing of "vega" returns hip_91262.
C8_MatchesTrimmedQuery ==
  Returned({"searchStars"}) =>
    /\ Ids(outcome.value) = StarsContaining(trim(toLowerCase(call.query)))
    /\ call.query \in {"vega", "VEGA", " Vega "} => "hip_91262" \in Ids(outcome.value)

\* C8 witness: a query in upper case has found Vega, and a query padded with
\* blanks is among the inputs.
C8_Witness ==
  /\ Returned({"searchStars"})
  /\ call.query = "VEGA"
  /\ Ids(outcome.value) = {"hip_91262"}

\* The method a call names, applied to a catalog.
Invoke(this, c) ==
  CASE c.op = "getVisibleStars" ->
         getVisibleStars(this, c.location, c.maxMagnitude, c.timestamp)
    [] c.op = "getStarsInView" ->
         getStarsInView(this, c.centerCoordinate, c.fieldOfViewDegrees, c.maxMagnitude)
    [] c.op = "searchStars" -> searchStars(this, c.query)
    [] c.op = "getVisiblePlanets" -> getVisiblePlanets(this, c.location, c.timestamp)
    [] c.op = "getStar" -> getStar(this, c.id)
    [] c.op = "getPlanet" -> getPlanet(this, c.id)
    [] c.op = "getConstellation" -> getConstellation(this, c.id)
    [] c.op = "getPlanets" -> getPlanets(this)
    [] c.op = "getConstellations" -> getConstellations(this)
    [] c.op = "getStatistics" -> getStatistics(this)
    [] c.op = "celestialToHorizontal" ->
         Return(celestialToHorizontal(c.celestial, c.location, c.timestamp))
    [] c.op = "calculatePlanetPosition" ->
         Return(calculatePlanetPosition(getPlanet(this, c.planet).value, c.timestamp))

\* The catalog of an instance on which initialize() has run once and nothing else.
FreshCatalog ==
  [stars |-> MapSetAll(<<>>, starData.stars),
   constellations |-> MapSetAll(<<>>, starData.constellations),
   planets |-> MapSetAll(<<>>, PLANET_DATA_planets),
   isInitialized |-> TRUE]

\* C10: whatever queries the readers have made before, in whatever order, a
\* query on the initialized catalog returns what it returns when it is the only
\* query made.
C10_InterleavedQueriesAgree ==
  (isInitialized /\ call.op # "none") => outcome = Invoke(FreshCatalog, call)

\* C10 witness: a reader gets a list of stars after initialize() has run twice.
C10_Witness ==
  /\ Returned({"getStarsInView"})
  /\ call.caller = "picker"
  /\ initCalls = 2
  /\ Len(outcome.value) > 1

\* x modulo 360 for a number x that is a whole number of eighths of a degree.
Modulo360(x) == FltRatio(FltScaled(x, 8) % 2880, 8)

\* C11: normalizeAngle(x) returns for every finite x, negative, zero or large,
\* and what it returns is in [0, 360) and is x modulo 360.
C11_NormalizeAngleReturnsModulo360 ==
  (call.op = "normalizeAngle") ~>
    (/\ call.op = "normalizeAngle"
     /\ outcome.kind = "value"
     /\ ~FltLess(outcome.value, FltZero)
     /\ FltLess(outcome.value, FltOf(360))
     /\ outcome.value = Modulo360(call.x))

\* C12: dateToJulianDay of 2000-01-01T12:00:00Z is 2451545.0 exactly: the whole
\* day 2451545 and no fraction of a day.
C12_JulianDayOfJ2000 ==
  (Returned({"dateToJulianDay"}) /\ call.date = J2000)
    => outcome.value = [day |-> 2451545, sec |-> 0]

\* C12 witness: dateToJulianDay has returned for 2000-01-01T12:00:00Z.
C12_Witness ==
  /\ Returned({"dateToJulianDay"})
  /\ call.date = J2000
  /\ outcome.value.day = 2451545

\* The calendar date that follows date, at the same time of the day.
NextDay(date) ==
  IF date.date < DaysInMonth(date.year, date.month)
    THEN [date EXCEPT !.date = date.date + 1]
    ELSE IF date.month < 11
      THEN [date EXCEPT !.date = 1, !.month = date.month + 1]
      ELSE [date EXCEPT !.date = 1, !.month = 0, !.year = date.year + 1]

\* C13: the Julian days of two consecutive calendar dates at the same time of
\* the day differ by exactly 1, across the ends of February in leap years and in
\* years that are none, and across the end of the year.
C13_ConsecutiveDatesDifferByOne ==
  Returned({"dateToJulianDay"}) =>
    LET next == dateToJulianDay(NextDay(call.date))
    IN  /\ next.day = outcome.value.day + 1
        /\ next.sec = outcome.value.sec

\* C13 witness: dateToJulianDay has returned for the 28th of February of 1900,
\* for the 29th of February of 2024 or for the 31st of December of 1999.
C13_Witness ==
  /\ Returned({"dateToJulianDay"})
  /\ \/ call.date.year = 1900 /\ call.date.month = 1 /\ call.date.date = 28
     \/ call.date.year = 2024 /\ call.date.month = 1 /\ call.date.date = 29
     \/ call.date.year = 1999 /\ call.date.month = 11 /\ call.date.date = 31
  /\ NextDay(call.date).date = 1

\* The Newton-Raphson step of Kepler's equation at the estimate E:
\* (E - e sin E - M) / (1 - e cos E).
NewtonStep(E, M, e) ==
  FltDiv(FltSub(FltSub(E, FltMul(e, MathSin(E))), M),
         FltSub(FltOf(1), FltMul(e, MathCos(E))))

RECURSIVE NewtonEstimate(_, _, _)
\* The estimate after n Newton-Raphson steps from the initial guess E = M.
NewtonEstimate(n, M, e) ==
  IF n = 0 THEN M
  ELSE LET E == NewtonEstimate(n - 1, M, e) IN FltSub(E, NewtonStep(E, M, e))

\* Whether the n-th step from the initial guess is below 1e-8 in magnitude.
StepIsSmall(n, M, e) ==
  FltLess(FltAbs(NewtonStep(NewtonEstimate(n - 1, M, e), M, e)), FltRatio(1, 100000000))

\* The iterations after which solveKeplerEquation is to return: those up to
\* the first step below 1e-8, and 10 if there is none among the first ten.
IterationsDue(M, e) ==
  IF \E n \in 1..10 : StepIsSmall(n, M, e)
    THEN CHOOSE n \in 1..10 :
           StepIsSmall(n, M, e) /\ \A k \in 1..(n - 1) : ~StepIsSmall(k, M, e)
    ELSE 10

\* C14: solveKeplerEquation returns a value for every mean anomaly and every
\* eccentricity in [0, 1): the estimate after the first step below 1e-8, and
\* the estimate after the 10th step when no earlier step is that small; it
\* makes no more than 10 iterations.
C14_SolveKeplerStopsWithinTenIterations ==
  Returned({"solveKeplerEquation"}) =>
    LET M == FltDiv(FltMul(call.meanAnomaly, MathPI), FltOf(180))
        e == call.eccentricity
        run == KeplerIterate(0, M, M, e)
    IN  /\ run.iterations \in 1..10
        /\ run.iterations = IterationsDue(M, e)
        /\ outcome.value =
             FltDiv(FltMul(NewtonEstimate(IterationsDue(M, e), M, e), FltOf(180)), MathPI)

\* C14 witness: solveKeplerEquation has returned the estimate of the 10th
\* iteration, no step having been below 1e-8.
C14_Witness ==
  /\ Returned({"solveKeplerEquation"})
  /\ call.eccentricity # FltZero
  /\ LET M == FltDiv(FltMul(call.meanAnomaly, MathPI), FltOf(180))
     IN  /\ \A n \in 1..10 : ~StepIsSmall(n, M, call.eccentricity)
         /\ KeplerIterate(0, M, M, call.eccentricity).iterations = 10

\* C15: for eccentricity 0, solveKeplerEquation(M, 0) returns M.
C15_CircularOrbitReturnsMeanAnomaly ==
  (Returned({"solveKeplerEquation"}) /\ call.eccentricity = FltZero)
    => outcome.value = call.meanAnomaly

\* The sine of the altitude and the denominator of the azimuth's cosine that
\* celestialToHorizontal computes for a call c.
SineOfAltitude(c) ==
  LET hourAngle == calculateLocalSiderealTime(c.location.longitude, c.timestamp)
                   - c.celestial.ra
  IN  FMul(Sin(c.celestial.dec), Sin(c.location.latitude))
      + FMul(FMul(Cos(c.celestial.dec), Cos(c.location.latitude)), Cos(hourAngle))

AzimuthDenominator(c) ==
  FMul(Cos(c.location.latitude), Cos(Asin(SineOfAltitude(c))))

\* C16: celestialToHorizontal returns an azimuth in [0, 360), never 360
\* itself, and an altitude in [-90, 90].
C16_HorizontalCoordinateInRange ==
  Returned({"celestialToHorizontal"}) =>
    /\ outcome.value.azimuth # NaN
    /\ outcome.value.azimuth >= 0 /\ outcome.value.azimuth < 3600
    /\ outcome.value.altitude # NaN
    /\ outcome.value.altitude >= -900 /\ outcome.value.altitude <= 900

\* The calls of celestialToHorizontal in which cos(latitude) * cos(altitude)
\* vanishes: the observer is at a pole, or the object at the zenith or nadir.
AzimuthIsDegenerate(c) == AzimuthDenominator(c) \in {0, NaN}

\* C17: when cos(latitude) * cos(altitude) is zero or near zero,
\* celestialToHorizontal returns a fixed azimuth that is not NaN: the same
\* one in every such case.
C17_DegenerateAzimuthIsFixed ==
  (Returned({"celestialToHorizontal"}) /\ AzimuthIsDegenerate(call)) =>
    /\ outcome.value.azimuth # NaN
    /\ \A c \in CelestialToHorizontalCalls :
         AzimuthIsDegenerate(c) =>
           celestialToHorizontal(c.celestial, c.location, c.timestamp).azimuth
             = outcome.value.azimuth

\* x taken into [-1, 1].
ClampToUnit(x) == MathMax(-TRIG_SCALE, MathMin(TRIG_SCALE, x))

\* The cosine of the separation of two coordinates, by the spherical law of
\* cosines.
CosineOfSeparation(coord1, coord2) ==
  FMul(Sin(coord1.dec), Sin(coord2.dec))
  + FMul(FMul(Cos(coord1.dec), Cos(coord2.dec)), Cos(coord2.ra - coord1.ra))

\* C18: the argument of each asin and acos of a position calculation is
\* clamped to [-1, 1]: the altitude of celestialToHorizontal and the distance
\* of calculateAngularDistance are those of the clamped argument (+-90, 0 or
\* 180 when it is out of the domain), and no position calculation returns NaN.
C18_InverseTrigArgumentsClamped ==
  /\ Returned({"celestialToHorizontal"}) =>
       /\ outcome.value.altitude = Asin(ClampToUnit(SineOfAltitude(call)))
       /\ outcome.value.azimuth # NaN
  /\ Returned({"calculateAngularDistance"}) =>
       outcome.value = Acos(ClampToUnit(CosineOfSeparation(call.coord1, call.coord2)))
  /\ Returned({"calculatePlanetPosition"}) =>
       outcome.value.ra # NaN /\ outcome.value.dec # NaN

\* C20: calculateAngularDistance is symmetric in its two arguments, is 0 for
\* one coordinate taken twice, and is in [0, 180].
C20_AngularDistanceSymmetricZeroBounded ==
  Returned({"calculateAngularDistance"}) =>
    /\ outcome.value = calculateAngularDistance(call.coord2, call.coord1)
    /\ call.coord1 = call.coord2 => outcome.value = 0
    /\ outcome.value # NaN /\ outcome.value >= 0 /\ outcome.value <= 1800

\* C19: calculatePlanetPosition returns calculateSunPosition(timestamp) for a
\* body of type 'sun', whatever its orbital elements, and for a body of type
\* 'planet' the result of the chain: normalized mean anomaly, Kepler's
\* equation, true anomaly, heliocentric coordinates, geocentric coordinates.
C19_PlanetPositionDispatch ==
  Returned({"calculatePlanetPosition"}) =>
    LET elements == call.planet.orbitalElements
        meanAnomaly == normalizeAngle(
          elements.meanAnomalyAtEpoch
          + TimesDaysSince(dateToJulianDay(call.timestamp), elements.epoch,
                           elements.dailyMotion, 100))
        eccentricAnomaly ==
          FltScaled(solveKeplerEquation(FltRatio(meanAnomaly, 10),
                                        FltRatio(elements.eccentricity, TRIG_SCALE)), 10)
        trueAnomaly == calculateTrueAnomaly(eccentricAnomaly, elements.eccentricity)
        helioCoords == calculateHeliocentricCoordinates(call.planet, trueAnomaly)
    IN  /\ call.planet.type = "sun" =>
             outcome.value = calculateSunPosition(call.timestamp)
        /\ call.planet.type = "planet" =>
             outcome.value = heliocentricToGeocentric(
                               helioCoords, calculateSunPosition(call.timestamp),
                               call.timestamp)

\* C19 witness: calculatePlanetPosition has returned for a body of type 'sun'
\* that has an orbit of its own.
C19_Witness ==
  /\ Returned({"calculatePlanetPosition"})
  /\ call.planet.type = "sun"
  /\ call.planet.orbitalElements.semiMajorAxis > 0

C22_InitializeIdempotent == initCalls >= 1 => This = FreshCatalog

\* C22 witness: initialize() has run twice on the shared instance.
C22_Witness == initCalls = 2 /\ isInitialized /\ Len(stars) > 0

----------------------------------------------------------------------------
\* ARStargazer

\* initializeARStargazer invocations a behaviour may start.
MaxRuns == 2

\* updateStarField calls a behaviour may make.
MaxUpdates == 2

\* mousemove events a gesture may hold.
MaxMoves == 2

\* `Math.abs(deltaX) > 5`
DragThreshold == 5

\* Pointer positions, in pixels along x.
Pixels == {0, 4, 8}

\* What the raycaster may report under the pointer: intersects[0] is a star
\* mesh, a planet mesh, or there is no intersection.
Hits ==
  {"none"} \cup (IF starObjectsRef # {} THEN {"star"} ELSE {})
           \cup (IF planetObjectsRef # {} THEN {"planet"} ELSE {})

\* An object made by `new THREE.Mesh`, `new THREE.Sprite` or `new THREE.Line`
\* for the catalog entry `of` during the n-th updateStarField call.
Object(kind, of, n) == [kind |-> kind, of |-> of, n |-> n]

\* constellationLinesRef.current, the one THREE.Group.
Group == [kind |-> "group"]

\* createSimplifiedStarObject(star, index): what it adds to the scene. The
\* star mesh goes to starObjectsRef and the label (createStarLabel) to
\* labelObjectsRef; the glow mesh is held by the scene only.
createSimplifiedStarObject(star, n) ==
  {Object("star", star.id, n)}
    \cup (IF star.magnitude < 150 THEN {Object("starGlow", star.id, n)} ELSE {})
    \cup (IF star.magnitude < 200 THEN {Object("starLabel", star.id, n)} ELSE {})

\* createPlanetObject(planet, location, index): what it adds to the scene. The
\* planet mesh goes to planetObjectsRef and the label (createPlanetLabel) to
\* planetLabelObjectsRef; glow and ring meshes are held by the scene only.
createPlanetObject(planet, n) ==
  {Object("planet", planet.id, n), Object("planetLabel", planet.id, n)}
    \cup (IF planet.type = "sun" THEN {Object("sunGlow", planet.id, n)} ELSE {})
    \cup (IF planet.id = "jupiter" THEN {Object("jupiterGlow", planet.id, n)} ELSE {})
    \cup (IF planet.id = "saturn" THEN {Object("ring", planet.id, n)} ELSE {})

\* createConstellationLines(): a line for every line of a constellation whose
\* two stars have a mesh.
createConstellationLines(this, n) ==
  {Object("line", <<this.constellations[c].id, j>>, n) :
     <<c, j>> \in {<<c, j>> \in (1..Len(this.constellations)) \X (1..20) :
                    /\ j <= Len(this.constellations[c].lines)
                    /\ MapHas(this.stars, this.constellations[c].lines[j].from)
                    /\ MapHas(this.stars, this.constellations[c].lines[j].to)}}

\* createConstellationLabels(): a label for every constellation with two stars
\* or more of which two or more have a mesh.
createConstellationLabels(this, n) ==
  {Object("constellationLabel", this.constellations[c].id, n) :
     c \in {c \in 1..Len(this.constellations) :
              /\ Len(this.constellations[c].stars) >= 2
              /\ Cardinality({i \in 1..Len(this.constellations[c].stars) :
                                MapHas(this.stars, this.constellations[c].stars[i])}) >= 2}}

\* What one updateStarField call adds to the scene itself.
Population(this, n) ==
  UNION {createSimplifiedStarObject(this.stars[k], n) : k \in 1..Len(this.stars)}
    \cup UNION {createPlanetObject(this.planets[k], n) :
                  k \in {k \in 1..Len(this.planets) : this.planets[k].id # "earth"}}
    \cup createConstellationLabels(this, n)

OfKind(objects, kinds) == {o \in objects : o.kind \in kinds}

\* initializeARStargazer, up to `await initializeCamera()`. The mount effect
\* calls it, and calls it again when onError changes (App passes a new
\* handleError on every render); the Retry button calls it too.
initializeARStargazer ==
  /\ runs < MaxRuns
  /\ runs' = runs + 1
  /\ pendingRuns' = pendingRuns + 1
  /\ ar_error' = Null
  /\ ar_isLoading' = TRUE
  /\ UNCHANGED <<vars, otherPages, ar_isInitialized, mountRef, sceneRef, cameraRef, rendererRef,
                 starObjectsRef, labelObjectsRef, planetObjectsRef,
                 planetLabelObjectsRef, constellationLabelsRef,
                 constellationLinesRef, isDragging, hasDragged, lastMousePos,
                 listening, updates, gesture>>

\* initializeARStargazer from `await initializeCamera()` to its end:
\* getInstance, `await starCatalogRef.current.initialize()`, setupThreeJS and
\* the two setters, or the catch branch when `new THREE.WebGLRenderer` throws
\* (webgl = FALSE). setupThreeJS returns at once while mountRef.current is null.
initializeARStargazerResume ==
  \E webgl \in BOOLEAN :
    /\ pendingRuns > 0
    /\ pendingRuns' = pendingRuns - 1
    /\ instance' = TRUE
    /\ LET loaded == loadPlanetaryData(loadEmbeddedCatalog(This, starData))
       IN  /\ stars' = loaded.stars
           /\ constellations' = loaded.constellations
           /\ planets' = loaded.planets
    /\ isInitialized' = TRUE
    /\ initOutcome' = "resolved"
    /\ initCalls' = initCalls + 1
    /\ IF mountRef
         THEN /\ sceneRef' = [children |-> IF webgl THEN {Group} ELSE {}]
              /\ cameraRef' = TRUE
              /\ rendererRef' = (rendererRef \/ webgl)
              /\ ar_isInitialized' = (ar_isInitialized \/ webgl)
              /\ ar_error' = IF webgl THEN ar_error
                             ELSE [message |-> "Error creating WebGL context."]
         ELSE /\ ar_isInitialized' = TRUE
              /\ UNCHANGED <<sceneRef, cameraRef, rendererRef, ar_error>>
    /\ ar_isLoading' = FALSE
    /\ UNCHANGED <<otherPages, starData, call, outcome, mountRef, starObjectsRef,
                   labelObjectsRef, planetObjectsRef, planetLabelObjectsRef,
                   constellationLabelsRef, constellationLinesRef, isDragging,
                   hasDragged, lastMousePos, listening, runs, updates, gesture>>

\* React commits a render: the element of mountRef exists exactly when neither
\* the loading screen nor the error screen is returned. Listeners registered on
\* an element go with it.
render ==
  /\ mountRef # (~ar_isLoading /\ ar_error = Null)
  /\ mountRef' = (~ar_isLoading /\ ar_error = Null)
  /\ listening' = (listening /\ mountRef')
  /\ UNCHANGED <<vars, otherPages, ar_isLoading, ar_isInitialized, ar_error, sceneRef, cameraRef,
                 rendererRef, starObjectsRef, labelObjectsRef, planetObjectsRef,
                 planetLabelObjectsRef, constellationLabelsRef,
                 constellationLinesRef, isDragging, hasDragged, lastMousePos,
                 pendingRuns, runs, updates, gesture>>

\* setupEventListeners, once mountRef.current is there (it retries every 100 ms
\* until then).
setupEventListeners ==
  /\ mountRef
  /\ ~listening
  /\ listening' = TRUE
  /\ UNCHANGED <<vars, otherPages, ar_isLoading, ar_isInitialized, ar_error, mountRef, sceneRef,
                 cameraRef, rendererRef, starObjectsRef, labelObjectsRef,
                 planetObjectsRef, planetLabelObjectsRef, constellationLabelsRef,
                 constellationLinesRef, isDragging, hasDragged, lastMousePos,
                 pendingRuns, runs, updates, gesture>>

\* updateStarField(currentLocation), called by the geolocation callback and by
\* the effects on location and isInitialized. The location only places the
\* planets, so it is left out.
updateStarField ==
  /\ instance
  /\ updates < MaxUpdates
  /\ updates' = updates + 1
  /\ IF sceneRef = Null
       THEN UNCHANGED <<sceneRef, starObjectsRef, labelObjectsRef, planetObjectsRef,
                        planetLabelObjectsRef, constellationLabelsRef,
                        constellationLinesRef>>
       ELSE /\ sceneRef' =
                 [children |->
                    (sceneRef.children \ (starObjectsRef \cup labelObjectsRef
                                            \cup planetObjectsRef
                                            \cup planetLabelObjectsRef
                                            \cup constellationLabelsRef))
                      \cup Population(This, updates')]
            /\ starObjectsRef' = OfKind(Population(This, updates'), {"star"})
            /\ labelObjectsRef' = OfKind(Population(This, updates'), {"starLabel"})
            /\ planetObjectsRef' = OfKind(Population(This, updates'), {"planet"})
            /\ planetLabelObjectsRef' = OfKind(Population(This, updates'), {"planetLabel"})
            /\ constellationLabelsRef' =
                 OfKind(Population(This, updates'), {"constellationLabel"})
            /\ constellationLinesRef' = createConstellationLines(This, updates')
  /\ UNCHANGED <<vars, otherPages, ar_isLoading, ar_isInitialized, ar_error, mountRef, cameraRef,
                 rendererRef, isDragging, hasDragged, lastMousePos, listening,
                 pendingRuns, runs, gesture>>

\* handleMouseDown(event)
handleMouseDown ==
  \E x \in Pixels :
    /\ listening
    /\ gesture.phase \in {"none", "over"}
    /\ isDragging' = TRUE
    /\ hasDragged' = FALSE
    /\ lastMousePos' = x
    /\ gesture' = [phase |-> "down", at |-> x, moves |-> 0, travelled |-> 0,
                   hit |-> "none", starClicks |-> 0, planetClicks |-> 0]
    /\ UNCHANGED <<vars, otherPages, ar_isLoading, ar_isInitialized, ar_error, mountRef, sceneRef,
                   cameraRef, rendererRef, starObjectsRef, labelObjectsRef,
                   planetObjectsRef, planetLabelObjectsRef, constellationLabelsRef,
                   constellationLinesRef, listening, pendingRuns, runs, updates>>

\* handleMouseMove(event) while the button is held. gesture.at is where the
\* pointer is; lastMousePos is what the handler has stored.
handleMouseMove ==
  \E x \in Pixels :
    /\ listening
    /\ gesture.phase = "down"
    /\ gesture.moves < MaxMoves
    /\ x # gesture.at
    /\ gesture' = [gesture EXCEPT !.moves = @ + 1, !.at = x,
                                  !.travelled = @ + Abs(x - gesture.at)]
    /\ IF isDragging /\ cameraRef
         THEN /\ hasDragged' = (hasDragged \/ Abs(x - lastMousePos) > DragThreshold)
              /\ lastMousePos' = x
         ELSE UNCHANGED <<hasDragged, lastMousePos>>
    /\ UNCHANGED <<vars, otherPages, ar_isLoading, ar_isInitialized, ar_error, mountRef, sceneRef,
                   cameraRef, rendererRef, starObjectsRef, labelObjectsRef,
                   planetObjectsRef, planetLabelObjectsRef, constellationLabelsRef,
                   constellationLinesRef, isDragging, listening, pendingRuns, runs,
                   updates>>

\* handleMouseUp(event), the window listener, for a button released over the
\* mount element; hit is what the raycaster finds under the pointer.
handleMouseUp ==
  \E hit \in Hits :
    /\ gesture.phase = "down"
    /\ isDragging' = FALSE
    /\ gesture' =
         [gesture EXCEPT
            !.phase = "up",
            !.hit = hit,
            !.starClicks =
              IF isDragging /\ ~hasDragged /\ cameraRef /\ sceneRef # Null /\ hit = "star"
                THEN @ + 1 ELSE @,
            !.planetClicks =
              IF isDragging /\ ~hasDragged /\ cameraRef /\ sceneRef # Null /\ hit = "planet"
                THEN @ + 1 ELSE @]
    /\ UNCHANGED <<vars, otherPages, ar_isLoading, ar_isInitialized, ar_error, mountRef, sceneRef,
                   cameraRef, rendererRef, starObjectsRef, labelObjectsRef,
                   planetObjectsRef, planetLabelObjectsRef, constellationLabelsRef,
                   constellationLinesRef, hasDragged, lastMousePos, listening,
                   pendingRuns, runs, updates>>

\* handleClick(event): the browser dispatches `click` on the mount element
\* after a mousedown and a mouseup on it, at the position of the mouseup.
handleClick ==
  /\ gesture.phase = "up"
  /\ gesture' =
       [gesture EXCEPT
          !.phase = "over",
          !.starClicks =
            IF listening /\ cameraRef /\ sceneRef # Null /\ gesture.hit = "star"
              THEN @ + 1 ELSE @,
          !.planetClicks =
            IF listening /\ cameraRef /\ sceneRef # Null /\ gesture.hit = "planet"
              THEN @ + 1 ELSE @]
  /\ UNCHANGED <<vars, otherPages, ar_isLoading, ar_isInitialized, ar_error, mountRef, sceneRef,
                 cameraRef, rendererRef, starObjectsRef, labelObjectsRef,
                 planetObjectsRef, planetLabelObjectsRef, constellationLabelsRef,
                 constellationLinesRef, isDragging, hasDragged, lastMousePos,
                 listening, pendingRuns, runs, updates>>

NextViewer ==
  \/ initializeARStargazer
  \/ initializeARStargazerResume
  \/ render
  \/ setupEventListeners
  \/ updateStarField
  \/ handleMouseDown
  \/ handleMouseMove
  \/ handleMouseUp
  \/ handleClick

SpecViewer == Init /\ [][NextViewer]_allVars

\* A mouse gesture has run to its end: mousedown, mouseup and the click the
\* browser dispatches after them.
GestureOver == gesture.phase = "over"

\* C23: a gesture that moved the pointer by more than 5 pixels in total calls
\* neither onStarClick nor onPlanetClick, and a gesture without movement that
\* ends over a star calls onStarClick exactly once.
C23_DragNeverSelectsClickSelectsOnce ==
  GestureOver =>
    /\ gesture.travelled > DragThreshold =>
         gesture.starClicks = 0 /\ gesture.planetClicks = 0
    /\ (gesture.travelled = 0 /\ gesture.hit = "star") => gesture.starClicks = 1

\* C24: after any number of updateStarField calls the scene holds the objects
\* of one population only: the group of lines and what the last call added.
C24_SceneHoldsOnePopulation ==
  sceneRef # Null =>
    \A o \in sceneRef.children : o = Group \/ o.n = updates

\* C25: when initializeARStargazer has finished without error (isInitialized
\* is true, isLoading is false, error is null), the scene, the camera and the
\* renderer exist.
C25_InitializedViewerHasScene ==
  (ar_isInitialized /\ ~ar_isLoading /\ ar_error = Null) =>
    (sceneRef # Null /\ cameraRef /\ rendererRef)

----------------------------------------------------------------------------
\* App (AppContent)

\* closeCelestialInfo calls on the stargazer page a behaviour may make.
MaxRemounts == 2

\* What ARStargazer may hand to onStarClick and to onPlanetClick.
ClickableStars == {STAR_DATA_stars[k] : k \in 1..2}

ClickablePlanets == {PLANET_DATA_planets[k] : k \in 1..2}

\* Who the auth context may report once its check is over: nobody, or a user.
SignedIn == [email |-> "user@example.com"]

\* The restore effect, run for a signed-in user: the page it leaves current.
restoreSavedPage(page, hash, saved) ==
  IF hash \in Pages THEN hash
  ELSE IF saved # Null /\ saved.value \in Pages THEN saved.value
  ELSE page

\* The persist effect: what localStorage.setItem and history.replaceState leave.
persistedHash(page) == IF page = "home" THEN "" ELSE page

\* The effects of the first render, in the order of their declaration: the
\* restore effect does nothing while loading, the persist effect stores 'home'.
AppMount ==
  /\ ~app_mounted
  /\ app_mounted' = TRUE
  /\ currentPage' = IF ~auth_loading /\ auth_user # Null
                      THEN restoreSavedPage(currentPage, locationHash, storedCurrentPage)
                      ELSE currentPage
  /\ storedCurrentPage' = Stored(currentPage')
  /\ locationHash' = persistedHash(currentPage')
  /\ app_handled' = "mount"
  /\ UNCHANGED <<vars, viewerVars, sensorVars, nasaVars, selectedStar, selectedPlanet, stargazerKey,
                 auth_loading, auth_user, app_signingOut, pageBeforeReload>>

\* The auth context reports the outcome of its check, or a later sign-in: the
\* restore effect runs (its dependencies are loading and user), and the persist
\* effect after it when currentPage changed.
authStateChange ==
  \E who \in {Null, SignedIn} :
    /\ app_mounted
    /\ auth_loading \/ (auth_user = Null /\ who # Null)
    /\ auth_loading' = FALSE
    /\ auth_user' = who
    /\ currentPage' = IF who # Null
                        THEN restoreSavedPage(currentPage, locationHash, storedCurrentPage)
                        ELSE currentPage
    /\ storedCurrentPage' = IF currentPage' # currentPage THEN Stored(currentPage')
                            ELSE storedCurrentPage
    /\ locationHash' = IF currentPage' # currentPage THEN persistedHash(currentPage')
                       ELSE locationHash
    /\ app_handled' = IF auth_loading THEN "authChecked" ELSE "signedIn"
    /\ UNCHANGED <<vars, viewerVars, sensorVars, nasaVars, selectedStar, selectedPlanet, stargazerKey,
                   app_mounted, app_signingOut, pageBeforeReload>>

\* Mutant of handleStarClick: the planet selection is left as it is.
handleStarClick_KeepsPlanet ==
  \E star \in ClickableStars :
    /\ app_mounted /\ ~auth_loading /\ auth_user # Null /\ currentPage = "stargazer"
    /\ selectedStar' = star
    /\ app_handled' = "handleStarClick"
    /\ UNCHANGED <<vars, viewerVars, sensorVars, nasaVars, currentPage, selectedPlanet, stargazerKey,
                   auth_loading, auth_user, storedCurrentPage, locationHash,
                   app_mounted, app_signingOut, pageBeforeReload>>

\* handleStarClick(star)
handleStarClick ==
  \E star \in ClickableStars :
    /\ app_mounted /\ ~auth_loading /\ auth_user # Null /\ currentPage = "stargazer"
    /\ selectedStar' = star
    /\ selectedPlanet' = Null
    /\ app_handled' = "handleStarClick"
    /\ UNCHANGED <<vars, viewerVars, sensorVars, nasaVars, currentPage, stargazerKey, auth_loading,
                   auth_user, storedCurrentPage, locationHash, app_mounted,
                   app_signingOut, pageBeforeReload>>

\* handlePlanetClick(planet)
handlePlanetClick ==
  \E planet \in ClickablePlanets :
    /\ app_mounted /\ ~auth_loading /\ auth_user # Null /\ currentPage = "stargazer"
    /\ selectedPlanet' = planet
    /\ selectedStar' = Null
    /\ app_handled' = "handlePlanetClick"
    /\ UNCHANGED <<vars, viewerVars, sensorVars, nasaVars, currentPage, stargazerKey, auth_loading,
                   auth_user, storedCurrentPage, locationHash, app_mounted,
                   app_signingOut, pageBeforeReload>>

\* navigateToHome, navigateToStargazer, navigateToAbout and navigateToNASA, by
\* the buttons of the page that is shown, with the persist effect.
navigateTo ==
  \E page \in Pages :
    /\ app_mounted /\ ~auth_loading /\ auth_user # Null
    /\ \/ currentPage = "home" /\ page # "home"
       \/ currentPage # "home" /\ page = "home"
    /\ currentPage' = page
    /\ selectedStar' = Null
    /\ selectedPlanet' = Null
    /\ storedCurrentPage' = Stored(page)
    /\ locationHash' = persistedHash(page)
    /\ app_handled' = "navigateTo"
    /\ UNCHANGED <<vars, viewerVars, sensorVars, nasaVars, stargazerKey, auth_loading, auth_user,
                   app_mounted, app_signingOut, pageBeforeReload>>

\* handleLogout, up to `await signOut()`.
handleLogout ==
  /\ app_mounted /\ ~auth_loading /\ auth_user # Null
  /\ app_signingOut = 0
  /\ app_signingOut' = 1
  /\ app_handled' = "handleLogout"
  /\ UNCHANGED <<vars, viewerVars, sensorVars, nasaVars, currentPage, selectedStar, selectedPlanet,
                 stargazerKey, auth_loading, auth_user, storedCurrentPage,
                 locationHash, app_mounted, pageBeforeReload>>

\* handleLogout after signOut() has resolved and the context has dropped the
\* user, with the persist effect.
handleLogoutResume ==
  /\ app_signingOut > 0
  /\ app_signingOut' = app_signingOut - 1
  /\ auth_user' = Null
  /\ selectedStar' = Null
  /\ selectedPlanet' = Null
  /\ currentPage' = "home"
  /\ storedCurrentPage' = IF currentPage # "home" THEN Stored("home")
                          ELSE storedCurrentPage
  /\ locationHash' = IF currentPage # "home" THEN "" ELSE locationHash
  /\ app_handled' = "handleLogoutResume"
  /\ UNCHANGED <<vars, viewerVars, sensorVars, nasaVars, stargazerKey, auth_loading, app_mounted,
                 pageBeforeReload>>

\* closeCelestialInfo(), by the modal shown while an object is selected.
closeCelestialInfo ==
  /\ app_mounted /\ ~auth_loading /\ auth_user # Null /\ currentPage = "stargazer"
  /\ selectedStar # Null \/ selectedPlanet # Null
  /\ stargazerKey < MaxRemounts
  /\ selectedStar' = Null
  /\ selectedPlanet' = Null
  /\ stargazerKey' = stargazerKey + 1
  /\ app_handled' = "closeCelestialInfo"
  /\ UNCHANGED <<vars, viewerVars, sensorVars, nasaVars, currentPage, auth_loading, auth_user,
                 storedCurrentPage, locationHash, app_mounted, app_signingOut,
                 pageBeforeReload>>

NextApp ==
  \/ AppMount
  \/ authStateChange
  \/ handleStarClick
  \/ handlePlanetClick
  \/ navigateTo
  \/ handleLogout
  \/ handleLogoutResume
  \/ closeCelestialInfo

InitAppAlone ==
  InitApp /\ InitARStargazer /\ IdleSensors /\ InitNASA /\ starData = STAR_DATA
    /\ InitCatalog

SpecApp == InitAppAlone /\ [][NextApp]_allVars

\* C26: for an authenticated user, once the auth check has finished the page
\* that was current before the reload (the URL hash if valid, else the stored
\* 'stargazer-current-page' value) is the current page.
C26_PageRestoredAfterReload ==
  (app_handled = "authChecked" /\ auth_user # Null /\ pageBeforeReload # Null) =>
    currentPage = pageBeforeReload.value

\* C27: at most one of selectedStar and selectedPlanet is non-null, and both
\* are null after every navigation, logout and closeCelestialInfo.
C27_AtMostOneSelection ==
  /\ selectedStar = Null \/ selectedPlanet = Null
  /\ app_handled \in {"navigateTo", "handleLogoutResume", "closeCelestialInfo"} =>
       (selectedStar = Null /\ selectedPlanet = Null)

\* C27 witness: a planet is selected after a star was, and the star is gone.
C27_Witness ==
  /\ app_handled = "handlePlanetClick"
  /\ selectedPlanet # Null
  /\ stargazerKey > 0

----------------------------------------------------------------------------
\* WebSensorManager

\* initialize() calls a behaviour may make.
MaxSensorCalls == 2

\* Listener registrations the array may hold.
MaxListeners == 3

\* A position the geolocation API reports.
Position == [latitude |-> 327, longitude |-> -1172, accuracy |-> 1000]

\* Array.prototype.indexOf
IndexOf(arr, x) ==
  IF \E i \in 1..Len(arr) : arr[i] = x
    THEN CHOOSE i \in 1..Len(arr) : arr[i] = x /\ \A j \in 1..(i - 1) : arr[j] # x
    ELSE 0

\* arr.splice(index, 1)
Splice(arr, index) == SubSeq(arr, 1, index - 1) \o SubSeq(arr, index + 1, Len(arr))

\* isReady()
isReady == permissionsGranted /\ orientationSupported /\ locationSupported

\* getCurrentLocation()
getCurrentLocation == currentLocation

\* initialize() up to `await this.fetchCurrentLocation()`: the two support
\* checks, requestOrientationPermission (granted says what the user answers
\* where the browser asks) and startOrientationTracking, which registers a new
\* handleOrientation closure on window. It rejects before that when an API is
\* missing or the permission is denied.
sensorInitialize ==
  \E granted \in BOOLEAN :
    /\ sensor_calls < MaxSensorCalls
    /\ sensor_calls' = sensor_calls + 1
    /\ orientationSupported' = deviceOrientationInWindow
    /\ locationSupported' = geolocationInNavigator
    /\ IF deviceOrientationInWindow /\ geolocationInNavigator /\ granted
         THEN /\ windowListeners' = windowListeners + 1
              /\ sensor_locating' = sensor_locating + 1
              /\ sensor_handled' = "initialize"
         ELSE /\ sensor_handled' = "initializeRejected"
              /\ UNCHANGED <<windowListeners, sensor_locating>>
    /\ UNCHANGED <<vars, viewerVars, appVars, nasaVars, orientationListeners, currentLocation,
                   permissionsGranted, deviceOrientationInWindow,
                   geolocationInNavigator, sensor_resolved, invoked>>

\* Mutant of fetchCurrentLocationSettles: permissionsGranted is set whether the
\* position arrived or not.
fetchCurrentLocationSettles_GrantsAlways ==
  \E found \in BOOLEAN :
    /\ sensor_locating > 0
    /\ sensor_locating' = sensor_locating - 1
    /\ permissionsGranted' = TRUE
    /\ IF found
         THEN /\ currentLocation' = Position
              /\ sensor_resolved' = sensor_resolved + 1
              /\ sensor_handled' = "initializeResolved"
         ELSE /\ sensor_handled' = "initializeRejected"
              /\ UNCHANGED <<currentLocation, sensor_resolved>>
    /\ UNCHANGED <<vars, viewerVars, appVars, nasaVars, orientationListeners,
                   orientationSupported, locationSupported,
                   deviceOrientationInWindow, geolocationInNavigator,
                   windowListeners, sensor_calls, invoked>>

\* The geolocation request of fetchCurrentLocation settles and initialize()
\* runs to its end: the success callback stores the position and initialize()
\* sets permissionsGranted; the error callback rejects.
fetchCurrentLocationSettles ==
  \E found \in BOOLEAN :
    /\ sensor_locating > 0
    /\ sensor_locating' = sensor_locating - 1
    /\ IF found
         THEN /\ currentLocation' = Position
              /\ permissionsGranted' = TRUE
              /\ sensor_resolved' = sensor_resolved + 1
              /\ sensor_handled' = "initializeResolved"
         ELSE /\ sensor_handled' = "initializeRejected"
              /\ UNCHANGED <<currentLocation, permissionsGranted, sensor_resolved>>
    /\ UNCHANGED <<vars, viewerVars, appVars, nasaVars, orientationListeners,
                   orientationSupported, locationSupported,
                   deviceOrientationInWindow, geolocationInNavigator,
                   windowListeners, sensor_calls, invoked>>

\* addOrientationListener(listener)
addOrientationListener ==
  \E listener \in Listeners :
    /\ Len(orientationListeners) < MaxListeners
    /\ orientationListeners' = Append(orientationListeners, listener)
    /\ sensor_handled' = "addOrientationListener"
    /\ UNCHANGED <<vars, viewerVars, appVars, nasaVars, currentLocation, orientationSupported,
                   locationSupported, permissionsGranted, deviceOrientationInWindow,
                   geolocationInNavigator, windowListeners, sensor_locating,
                   sensor_calls, sensor_resolved, invoked>>

\* removeOrientationListener(listener)
removeOrientationListener ==
  \E listener \in Listeners :
    /\ orientationListeners' =
         IF IndexOf(orientationListeners, listener) > 0
           THEN Splice(orientationListeners, IndexOf(orientationListeners, listener))
           ELSE orientationListeners
    /\ sensor_handled' = "removeOrientationListener"
    /\ UNCHANGED <<vars, viewerVars, appVars, nasaVars, currentLocation, orientationSupported,
                   locationSupported, permissionsGranted, deviceOrientationInWindow,
                   geolocationInNavigator, windowListeners, sensor_locating,
                   sensor_calls, sensor_resolved, invoked>>

\* cleanup(): the listener arrays are emptied; the closures on window stay.
cleanup ==
  /\ orientationListeners' = <<>>
  /\ sensor_handled' = "cleanup"
  /\ UNCHANGED <<vars, viewerVars, appVars, nasaVars, currentLocation, orientationSupported,
                 locationSupported, permissionsGranted, deviceOrientationInWindow,
                 geolocationInNavigator, windowListeners, sensor_locating,
                 sensor_calls, sensor_resolved, invoked>>

\* The browser dispatches one deviceorientation event: every handleOrientation
\* closure on window runs this.orientationListeners.forEach.
deviceorientation ==
  /\ deviceOrientationInWindow
  /\ invoked' =
       [l \in Listeners |->
          windowListeners
            * Cardinality({i \in 1..Len(orientationListeners) : orientationListeners[i] = l})]
  /\ sensor_handled' = "deviceorientation"
  /\ UNCHANGED <<vars, viewerVars, appVars, nasaVars, orientationListeners, currentLocation,
                 orientationSupported, locationSupported, permissionsGranted,
                 deviceOrientationInWindow, geolocationInNavigator, windowListeners,
                 sensor_locating, sensor_calls, sensor_resolved>>

NextSensors ==
  \/ sensorInitialize
  \/ fetchCurrentLocationSettles
  \/ addOrientationListener
  \/ removeOrientationListener
  \/ cleanup
  \/ deviceorientation

InitSensorsAlone ==
  InitSensors /\ InitARStargazer /\ IdleApp /\ InitNASA /\ starData = STAR_DATA
    /\ InitCatalog

SpecSensors == InitSensorsAlone /\ [][NextSensors]_allVars

\* How often listener l is registered.
Registrations(l) ==
  Cardinality({i \in 1..Len(orientationListeners) : orientationListeners[i] = l})

\* C28: once orientation tracking has been started, one deviceorientation event
\* calls every listener exactly once per registration it holds at that moment,
\* and calls no listener that was removed or cleared.
C28_EventCallsEachRegistrationOnce ==
  (sensor_handled = "deviceorientation" /\ windowListeners > 0) =>
    \A l \in Listeners : invoked[l] = Registrations(l)

\* C29: isReady() is true only after an initialize() call has resolved, and
\* then both sensors are supported, orientation tracking has been started and
\* getCurrentLocation() is non-null; while only rejected initialize() calls
\* have been made isReady() is false.
C29_ReadyOnlyAfterSuccessfulInitialize ==
  /\ isReady =>
       /\ sensor_resolved > 0
       /\ orientationSupported /\ locationSupported
       /\ windowListeners > 0
       /\ getCurrentLocation # Null
  /\ (sensor_handled = "initializeRejected" /\ sensor_resolved = 0) => ~isReady

\* C29 witness: isReady() is true after one initialize() call resolved and
\* another rejected.
C29_Witness ==
  isReady /\ sensor_handled = "initializeRejected" /\ sensor_calls = 2

----------------------------------------------------------------------------
\* NASADataPage

\* fetchNASAData invocations a behaviour may make.
MaxFetches == 3

\* The last second the clock may reach.
MaxNow == 90

\* `(now - parseInt(lastFetch)) < 60000`, in seconds.
CacheSeconds == 60

\* What api.nasa.gov may answer: the status of a response.
Statuses == {"ok", "rateLimited", "failed"}

\* The bodies of its answers.
ApodBodies == {[title |-> "Ngc6072"], [title |-> "M31"]}

NeoBodies == {<<>>, <<[id |-> "3542519"]>>}

\* The fallback values of the 429 branches.
ApodFallback == [title |-> "Rate Limit Reached"]

NeoFallback == <<[id |-> "fallback"]>>

\* JSON.stringify and JSON.parse of a value that survives the round trip, and
\* now.toString() and parseInt of an integer.
Stringify(value) == [text |-> value]

Parse(string) == string.text

\* The cache test of fetchNASAData: nasaLastFetch is less than a minute old
\* and both cache entries are there.
CacheIsFresh ==
  nasaLastFetch # Null /\ nasa_now - Parse(nasaLastFetch) < CacheSeconds

CacheIsUsable == CacheIsFresh /\ nasaCachedNEO # Null /\ nasaCachedAPOD # Null

\* fetchNASAData(), called by the mount effect (mount = TRUE: the component is
\* new and holds its initial values) or by the Retry button of the error
\* screen. apod and neo are the statuses of the two responses, apodBody and
\* neoBody what they carry.
fetchNASAData ==
  \E mount \in BOOLEAN, apod \in Statuses, neo \in Statuses,
     apodBody \in ApodBodies, neoBody \in NeoBodies :
    /\ nasa_calls < MaxFetches
    /\ mount \/ nasa_error # Null
    /\ nasa_calls' = nasa_calls + 1
    /\ nasa_recent' = CacheIsFresh
    /\ nasa_loading' = FALSE
    /\ IF CacheIsUsable
         THEN /\ nearEarthObjects' = Parse(nasaCachedNEO)
              /\ apodData' = Parse(nasaCachedAPOD)
              /\ nasa_error' = Null
              /\ nasa_requests' = 0
              /\ UNCHANGED <<nasaLastFetch, nasaCachedNEO, nasaCachedAPOD>>
         ELSE /\ apodData' =
                   IF apod = "rateLimited" THEN ApodFallback
                   ELSE IF apod = "ok" THEN apodBody
                   ELSE IF mount THEN Null ELSE apodData
              /\ nasaCachedAPOD' =
                   IF apod = "ok" THEN Stringify(apodBody) ELSE nasaCachedAPOD
              /\ nearEarthObjects' =
                   IF apod # "failed" /\ neo = "rateLimited" THEN NeoFallback
                   ELSE IF apod # "failed" /\ neo = "ok"
                     THEN SubSeq(neoBody, 1, MathMin(10, Len(neoBody)))
                   ELSE IF mount THEN <<>> ELSE nearEarthObjects
              /\ nasaCachedNEO' =
                   IF apod # "failed" /\ neo = "ok"
                     THEN Stringify(SubSeq(neoBody, 1, MathMin(10, Len(neoBody))))
                     ELSE nasaCachedNEO
              /\ nasaLastFetch' =
                   IF apod # "failed" /\ neo # "failed" THEN Stringify(nasa_now)
                   ELSE nasaLastFetch
              /\ nasa_error' =
                   IF apod = "failed" THEN [message |-> "Failed to load NASA data: APOD API failed"]
                   ELSE IF neo = "failed"
                     THEN [message |-> "Failed to load NASA data: NEO API failed"]
                   ELSE Null
              /\ nasa_requests' = IF apod = "failed" THEN 1 ELSE 2
    /\ UNCHANGED <<vars, viewerVars, appVars, sensorVars, nasa_now>>

\* Time passes.
NasaClock ==
  /\ nasa_now + 30 <= MaxNow
  /\ nasa_now' = nasa_now + 30
  /\ UNCHANGED <<vars, viewerVars, appVars, sensorVars, nasaLastFetch, nasaCachedNEO,
                 nasaCachedAPOD, nearEarthObjects, apodData, nasa_loading,
                 nasa_error, nasa_calls, nasa_requests, nasa_recent>>

NextNASA == fetchNASAData \/ NasaClock

InitNASAAlone ==
  InitNASA /\ InitARStargazer /\ IdleApp /\ IdleSensors /\ starData = STAR_DATA
    /\ InitCatalog

SpecNASA == InitNASAAlone /\ [][NextNASA]_allVars

\* C30: a fetchNASAData invocation that began less than 60 seconds after the
\* time stored in 'nasaLastFetch' has sent no request to the NASA API and shows
\* the cached APOD and NEO data.
C30_RecentFetchUsesCache ==
  (nasa_calls > 0 /\ nasa_recent) =>
    /\ nasa_requests = 0
    /\ nasaCachedAPOD # Null /\ apodData = Parse(nasaCachedAPOD)
    /\ nasaCachedNEO # Null /\ nearEarthObjects = Parse(nasaCachedNEO)

====
